---- MODULE Spec2Model ----
(***************************************************************************)
(* A model of the authenticated-request core of the iec-relay SDK client:  *)
(* RelayClient (constructor, buildRequest, getToken, request) and the      *)
(* token helpers mintServiceJwt / isTokenExpired.                          *)
(*                                                                         *)
(* JavaScript objects (the configuration, a header set, a JSON envelope)   *)
(* are functions whose domain holds the keys that are present.  JSON       *)
(* values are written as their JSON text.  A token string is the sequence  *)
(* of its period-separated segments.                                       *)
(***************************************************************************)
EXTENDS Integers, Sequences, FiniteSets, TLC

VARIABLES client, config, cachedToken, now, req,
          given,   \* the configuration object handed to the constructor
          env,     \* process.env as fromEnv read it
          mints,   \* how many times this client called mintServiceJwt
          probe,   \* a direct call of a jwt helper: its arguments and result
          bio      \* the access-token supplier fromEnv builds: its closure variables

vars == <<client, config, cachedToken, now, req, given, env, mints, probe, bio>>

----------------------------------------------------------------------------
(* Bounds of the model *)

MaxRetries == 2
NumReq == 1
MaxClock == 1
JitterSteps == 2
NumConcurrent == 2
MaxMints == 3
BioSteps == 3
BackoffRetries == 4

(* Program constants *)

DEFAULT_JANUS_URL == "http://janus.janus-prod.svc.cluster.local:3000"
RELAY_API_PATH == "/api/relay"
DEFAULT_TIMEOUT_MS == 10000
DefaultRetries == 2
DefaultTokenTtlSeconds == 300
DefaultBufferSeconds == 30
DefaultTtlSeconds == 300
BackoffUnitMs == 1000
BackoffCapMs == 5000
ServerErrorFloor == 500

----------------------------------------------------------------------------
(* JavaScript values *)

UNDEF == "undefined"

Get(o, k) == IF k \in DOMAIN o THEN o[k] ELSE UNDEF

\* !!x for a string-valued optional field: absent and the empty string are falsy
Truthy(o, k) == k \in DOMAIN o /\ o[k] # ""

\* !v for a JSON value written as its JSON text
Falsy(v) == v \in {UNDEF, "null", "0", "false", "\"\""}

Opt(k, vals) == {<<>>} \cup {k :> v : v \in vals}

Requests == 1..NumReq

----------------------------------------------------------------------------
(* RelayError and plain errors *)

RelayError(message, statusCode, code, details) ==
  [name |-> "RelayError", message |-> message, statusCode |-> statusCode,
   code |-> code, details |-> details]

PlainError(message) == [name |-> "Error", message |-> message]

Return(v) == [kind |-> "return", value |-> v]
Throw(e) == [kind |-> "throw", error |-> e]
NoResult == [kind |-> "pending"]

----------------------------------------------------------------------------
(* jwt: mintServiceJwt and isTokenExpired *)

NoToken == <<>>

base64url(x) == [b64 |-> x]

JwtHeader == base64url([alg |-> "HS256", typ |-> "JWT"])

HmacSha256_Unkeyed(secret, header, payload) == [hmac |-> <<"", header, payload>>]

HmacSha256(secret, header, payload) == [hmac |-> <<secret, header, payload>>]

mintServiceJwt_DefaultTtl(secret, programId, ttlSeconds, clock) ==
  LET payload == [programId |-> programId, scopes |-> <<"service:relay">>,
                  iat |-> clock, exp |-> clock + DefaultTokenTtlSeconds]
      encodedPayload == base64url(payload)
  IN  <<JwtHeader, encodedPayload, HmacSha256(secret, JwtHeader, encodedPayload)>>

mintServiceJwt(secret, programId, ttlSeconds, clock) ==
  LET payload == [programId |-> programId, scopes |-> <<"service:relay">>,
                  iat |-> clock, exp |-> clock + ttlSeconds]
      encodedPayload == base64url(payload)
  IN  <<JwtHeader, encodedPayload, HmacSha256(secret, JwtHeader, encodedPayload)>>

\* JSON.parse(Buffer.from(parts[1], 'base64url')) succeeds and yields an object
Decodable(seg) == DOMAIN seg = {"b64"} /\ DOMAIN seg.b64 \cap {"iat", "exp", "programId"} # {}

isTokenExpired_NoBuffer(token, bufferSeconds, clock) ==
  IF Len(token) # 3 THEN TRUE
  ELSE IF ~Decodable(token[2]) THEN TRUE
  ELSE IF "exp" \notin DOMAIN token[2].b64 THEN FALSE
  ELSE token[2].b64.exp <= clock

isTokenExpired_Strict(token, bufferSeconds, clock) ==
  IF Len(token) # 3 THEN TRUE
  ELSE IF ~Decodable(token[2]) THEN TRUE
  ELSE IF "exp" \notin DOMAIN token[2].b64 THEN FALSE
  ELSE token[2].b64.exp < clock + bufferSeconds

isTokenExpired(token, bufferSeconds, clock) ==
  IF Len(token) # 3 THEN TRUE
  ELSE IF ~Decodable(token[2]) THEN TRUE
  ELSE IF "exp" \notin DOMAIN token[2].b64 THEN FALSE
  ELSE token[2].b64.exp <= clock + bufferSeconds

\* isTokenExpired(token) / isTokenExpired(token, bufferSeconds): the optional
\* argument is a sequence of at most one value
isTokenExpiredCall(token, buffer, clock) ==
  isTokenExpired(token, IF buffer = <<>> THEN DefaultBufferSeconds ELSE buffer[1], clock)

mintServiceJwtCall_Ttl60(secret, programId, ttl, clock) ==
  Return(mintServiceJwt(secret, programId, IF ttl = <<>> THEN 60 ELSE ttl[1], clock))

\* mintServiceJwt(secret, programId) / mintServiceJwt(secret, programId,
\* ttlSeconds): the token returned (the function has no throw statement)
mintServiceJwtCall(secret, programId, ttl, clock) ==
  Return(mintServiceJwt(secret, programId,
                        IF ttl = <<>> THEN DefaultTtlSeconds ELSE ttl[1], clock))

\* Arguments of direct mintServiceJwt calls
ProbeSecrets == {"", "too-short", "aaaa-secret-key-for-testing-sig-a",
                 "bbbb-secret-key-for-testing-sig-b"}
ProbePrograms == {"test-org", "my-service"}
ProbeTtls == {<<>>, <<1>>, <<30>>, <<31>>, <<60>>}

\* Tokens handed to isTokenExpired directly: well-formed ones with these exp
\* values, one whose payload has no exp, one whose payload does not decode to
\* an object, and strings that do not have three segments
ProbeExps == {0, 1, 2, 29, 30, 31, 32}
ProbeBuffers == {<<>>, <<0>>, <<1>>, <<30>>}

TokenWithPayload(payload) ==
  <<JwtHeader, base64url(payload), HmacSha256("probe-secret", JwtHeader, base64url(payload))>>

ProbeTokens ==
  {TokenWithPayload([programId |-> "test-org", scopes |-> <<"service:relay">>,
                     iat |-> 0, exp |-> e]) : e \in ProbeExps}
  \cup {TokenWithPayload([programId |-> "test-org", scopes |-> <<"service:relay">>, iat |-> 0]),
        <<JwtHeader, [raw |-> "b"], [raw |-> "c"]>>,
        <<[raw |-> "a"], [raw |-> "b"]>>,
        <<[raw |-> "not-a-jwt"]>>,
        <<[raw |-> ""]>>}

----------------------------------------------------------------------------
(* Configuration inputs (RelayClientConfig) *)

RelayUrls == {"", "http://localhost:3001"}
JanusUrls == {"https://janus.test.local"}
InternalKeys == {"", "test-key"}
JwtSecrets == {"", "370e0b7a6c0f59b8979701ad239fda3cfafb1ce0215e70497b8ddea2f7ba44ee"}
ProgramIds == {"test-org"}
TokenTtls == {31}

Configs ==
  {u @@ f @@ k @@ s @@ p @@ j @@ t @@ n :
     u \in Opt("relayUrl", RelayUrls),
     f \in Opt("accessTokenFn", {"function"}),
     k \in Opt("internalKey", InternalKeys),
     s \in Opt("jwtSecret", JwtSecrets),
     p \in Opt("programId", ProgramIds),
     j \in Opt("janusUrl", JanusUrls),
     t \in Opt("tokenTtlSeconds", TokenTtls),
     n \in Opt("retries", {0})}

\* One configuration of each auth mode, with every retry budget
EngineConfigs ==
  {m @@ n :
     m \in {("relayUrl" :> "http://localhost:3001") @@ ("internalKey" :> "test-key"),
            ("accessTokenFn" :> "function") @@ ("janusUrl" :> "https://janus.test.local"),
            ("jwtSecret" :> "370e0b7a6c0f59b8979701ad239fda3cfafb1ce0215e70497b8ddea2f7ba44ee")
              @@ ("programId" :> "test-org")},
     n \in Opt("retries", 0..MaxRetries)}

\* Legacy-mode configurations: a TTL at the expiry buffer, just above it, and
\* the default
LegacyTtls == {30, 31}

LegacyConfigs ==
  {(("jwtSecret" :> s) @@ ("programId" :> p)) @@ t @@ ("retries" :> 1) :
     s \in {x \in JwtSecrets : x # ""}, p \in ProgramIds,
     t \in Opt("tokenTtlSeconds", LegacyTtls)}

\* A direct-mode client with and without its own timeout, every retry budget
TimeoutConfigs ==
  {(("relayUrl" :> "http://localhost:3001") @@ ("internalKey" :> "test-key")) @@ t @@ n :
     t \in Opt("timeoutMs", {2500}), n \in Opt("retries", 0..MaxRetries)}

\* A direct-mode client whose retry budget reaches the capped backoff
BackoffConfigs ==
  {(("relayUrl" :> "http://localhost:3001") @@ ("internalKey" :> "test-key")) @@ n :
     n \in Opt("retries", 0..BackoffRetries)}

\* Each auth mode with and without the legacy credentials beside it; the one
\* with nothing at all fails construction
FrameConfigs ==
  {(m @@ s) @@ ("retries" :> 1) :
     m \in {("relayUrl" :> "http://localhost:3001") @@ ("internalKey" :> "test-key"),
            ("accessTokenFn" :> "function"),
            <<>>},
     s \in {<<>>,
            ("jwtSecret" :> "370e0b7a6c0f59b8979701ad239fda3cfafb1ce0215e70497b8ddea2f7ba44ee")
              @@ ("programId" :> "test-org") @@ ("tokenTtlSeconds" :> 31)}}

\* The credential fields, each absent, empty or set
CredentialConfigs ==
  {u @@ f @@ s @@ p @@ ("retries" :> 1) :
     u \in Opt("relayUrl", RelayUrls),
     f \in Opt("accessTokenFn", {"function"}),
     s \in Opt("jwtSecret", JwtSecrets),
     p \in Opt("programId", {"", "test-org"})}

\* x ?? d on the key k of o
Coalesce(o, k, d) == IF k \in DOMAIN o THEN o[k] ELSE d

\* the configuration the constructor stores: ...config with the four defaults
Resolved(c) ==
  ("retries" :> Coalesce(c, "retries", DefaultRetries))
  @@ ("tokenTtlSeconds" :> Coalesce(c, "tokenTtlSeconds", DefaultTokenTtlSeconds))
  @@ ("sourceService" :> Coalesce(c, "sourceService", Coalesce(c, "programId", "unknown")))
  @@ ("timeoutMs" :> Coalesce(c, "timeoutMs", DEFAULT_TIMEOUT_MS))
  @@ c

Constructor_NoProgramIdCheck(c) ==
  IF "accessTokenFn" \notin DOMAIN c /\ ~Truthy(c, "jwtSecret") /\ ~Truthy(c, "relayUrl")
    THEN Throw(PlainError("iec-relay: Provide accessTokenFn (recommended), jwtSecret (legacy), or relayUrl (local dev)"))
  ELSE Return(Resolved(c))

Constructor_NoModeCheck(c) ==
  IF Truthy(c, "jwtSecret") /\ ~Truthy(c, "programId")
    THEN Throw(PlainError("iec-relay: programId is required when using jwtSecret"))
  ELSE Return(Resolved(c))

Constructor_ProgramIdForLegacyOnly(c) ==
  LET hasAccessTokenFn == "accessTokenFn" \in DOMAIN c
      hasJwtSecret == Truthy(c, "jwtSecret")
      hasRelayUrl == Truthy(c, "relayUrl")
  IN  IF ~hasAccessTokenFn /\ ~hasJwtSecret /\ ~hasRelayUrl
        THEN Throw(PlainError("iec-relay: Provide accessTokenFn (recommended), jwtSecret (legacy), or relayUrl (local dev)"))
      ELSE IF ~hasAccessTokenFn /\ ~hasRelayUrl /\ ~Truthy(c, "programId")
        THEN Throw(PlainError("iec-relay: programId is required when using jwtSecret"))
      ELSE Return(Resolved(c))

\* The constructor: a thrown Error, or the resolved configuration
Constructor(c) ==
  LET hasAccessTokenFn == "accessTokenFn" \in DOMAIN c
      hasJwtSecret == Truthy(c, "jwtSecret")
      hasRelayUrl == Truthy(c, "relayUrl")
  IN  IF ~hasAccessTokenFn /\ ~hasJwtSecret /\ ~hasRelayUrl
        THEN Throw(PlainError("iec-relay: Provide accessTokenFn (recommended), jwtSecret (legacy), or relayUrl (local dev)"))
      ELSE IF hasJwtSecret /\ ~Truthy(c, "programId")
        THEN Throw(PlainError("iec-relay: programId is required when using jwtSecret"))
      ELSE Return(Resolved(c))

----------------------------------------------------------------------------
(* RelayClient.fromEnv *)

\* process.env: a variable is unset, or set to a string (possibly empty)
Envs ==
  {a @@ b @@ c @@ d @@ f @@ g @@ h @@ k :
     a \in Opt("RELAY_DIRECT_URL", RelayUrls),
     b \in Opt("RELAY_INTERNAL_KEY", {"test-key"}),
     c \in Opt("BIO_CLIENT_ID", {"my-service-prod"}),
     d \in Opt("BIO_CLIENT_SECRET", {"secret_abc123"}),
     f \in Opt("JWT_SECRET", {"370e0b7a6c0f59b8979701ad239fda3cfafb1ce0215e70497b8ddea2f7ba44ee"}),
     g \in Opt("PROGRAM_ID", ProgramIds),
     h \in Opt("JANUS_URL", JanusUrls),
     k \in Opt("SERVICE_NAME", {"ppay-board"})}

\* {k: process.env[name]}: a property whose value is undefined is an absent key
EnvField(e, k, name) == IF name \in DOMAIN e THEN k :> e[name] ELSE <<>>

\* {sourceService: process.env[first] ?? process.env[second]}
EnvSourceService(e, first, second) ==
  IF first \in DOMAIN e THEN "sourceService" :> e[first]
  ELSE EnvField(e, "sourceService", second)

NoConfig == <<>>

EnvConfig_DelegatedFirst(e) ==
  IF Truthy(e, "BIO_CLIENT_ID") /\ Truthy(e, "BIO_CLIENT_SECRET")
    THEN ("accessTokenFn" :> "function")
         @@ EnvField(e, "janusUrl", "JANUS_URL")
         @@ EnvSourceService(e, "SERVICE_NAME", "PROGRAM_ID")
  ELSE IF Truthy(e, "RELAY_DIRECT_URL")
    THEN ("relayUrl" :> e["RELAY_DIRECT_URL"])
         @@ EnvField(e, "internalKey", "RELAY_INTERNAL_KEY")
         @@ EnvSourceService(e, "PROGRAM_ID", "SERVICE_NAME")
  ELSE IF Truthy(e, "JWT_SECRET")
    THEN ("jwtSecret" :> e["JWT_SECRET"])
         @@ EnvField(e, "programId", "PROGRAM_ID")
         @@ EnvField(e, "janusUrl", "JANUS_URL")
  ELSE NoConfig

\* the configuration fromEnv hands to the constructor, NoConfig when it
\* reaches its final throw
EnvConfig(e) ==
  IF Truthy(e, "RELAY_DIRECT_URL")
    THEN ("relayUrl" :> e["RELAY_DIRECT_URL"])
         @@ EnvField(e, "internalKey", "RELAY_INTERNAL_KEY")
         @@ EnvSourceService(e, "PROGRAM_ID", "SERVICE_NAME")
  ELSE IF Truthy(e, "BIO_CLIENT_ID") /\ Truthy(e, "BIO_CLIENT_SECRET")
    THEN ("accessTokenFn" :> "function")
         @@ EnvField(e, "janusUrl", "JANUS_URL")
         @@ EnvSourceService(e, "SERVICE_NAME", "PROGRAM_ID")
  ELSE IF Truthy(e, "JWT_SECRET")
    THEN ("jwtSecret" :> e["JWT_SECRET"])
         @@ EnvField(e, "programId", "PROGRAM_ID")
         @@ EnvField(e, "janusUrl", "JANUS_URL")
  ELSE NoConfig

\* fromEnv(): the thrown Error, or what new RelayClient(...) gives
fromEnv(e) ==
  IF EnvConfig(e) = NoConfig
    THEN Throw(PlainError("iec-relay: No auth configured. Set BIO_CLIENT_ID + BIO_CLIENT_SECRET (recommended), JWT_SECRET + PROGRAM_ID (legacy), or RELAY_DIRECT_URL (local dev)"))
  ELSE Constructor(EnvConfig(e))

----------------------------------------------------------------------------
(* The access-token supplier fromEnv builds (accessTokenFn) *)

DefaultExpiresIn == 900
BioBufferSeconds == 30

\* let cachedBioToken = null, bioTokenExpiresAt = 0; no call made yet.
\* pc and started follow one call of the supplier; issued and
\* declared keep, of the response that filled the cache, the time its fetch
\* started and its expires_in field; reusedAt is set when a call returned the
\* cached token.  Times are whole seconds.
NoBio ==
  [pc |-> "idle", cachedBioToken |-> NoToken, bioTokenExpiresAt |-> 0, started |-> 0,
   issued |-> 0, declared |-> <<>>, reusedAt |-> <<>>, result |-> NoResult]

\* What the token endpoint may answer
BioTokens == {<<"bio-token-1">>, <<"bio-token-2">>}
ExpiresIns == {0, 30, 31, 32, 900}

BioResponses ==
  {[t |-> "reject", err |-> [dom |-> FALSE, name |-> "TypeError", message |-> "fetch failed"]],
   [t |-> "response", ok |-> FALSE, status |-> 401]}
  \cup {[t |-> "response", ok |-> TRUE, status |-> 200,
          data |-> ("access_token" :> a) @@ x] :
          a \in BioTokens, x \in Opt("expires_in", ExpiresIns)}

\* data.expires_in || 900
ExpiresInOf(data) ==
  IF "expires_in" \in DOMAIN data /\ data["expires_in"] # 0 THEN data["expires_in"]
  ELSE DefaultExpiresIn

\* from the first seconds to just before the default expiry
LongWait == (DefaultExpiresIn - BioBufferSeconds) - BioSteps

\* if (cachedBioToken && now < bioTokenExpiresAt)
BioCacheHit(b, clock) == b.cachedBioToken # NoToken /\ clock < b.bioTokenExpiresAt

----------------------------------------------------------------------------
(* getToken and buildRequest *)

getToken_AlwaysMint(cfg, cached, clock) ==
  LET t == mintServiceJwt(cfg["jwtSecret"], cfg["programId"], cfg["tokenTtlSeconds"], clock)
  IN  [result |-> Return(t), cache |-> t, minted |-> TRUE]

\* getToken: the token or the thrown error, and the cache afterwards
getToken(cfg, cached, clock) ==
  IF cached # NoToken /\ ~isTokenExpired(cached, DefaultBufferSeconds, clock)
    THEN [result |-> Return(cached), cache |-> cached, minted |-> FALSE]
  ELSE IF ~Truthy(cfg, "jwtSecret") \/ ~Truthy(cfg, "programId")
    THEN [result |-> Throw(RelayError("jwtSecret and programId are required for legacy Janus auth",
                                      500, "CONFIG_ERROR", UNDEF)),
          cache |-> cached, minted |-> FALSE]
  ELSE LET t == mintServiceJwt(cfg["jwtSecret"], cfg["programId"], cfg["tokenTtlSeconds"], clock)
       IN  [result |-> Return(t), cache |-> t, minted |-> TRUE]

Bearer(token) == [scheme |-> "Bearer", token |-> token]

\* What the access-token supplier may do when awaited
SupplierTokens == {<<"bio-token-1">>, <<"bio-token-2">>}
SupplierErrors == {PlainError("token fetch failed"),
                   RelayError("Bio-ID token request failed", 401, "AUTH_ERROR", UNDEF)}
SupplierOutcomes == {Return(t) : t \in SupplierTokens} \cup {Throw(e) : e \in SupplierErrors}

UseSupplier_Never(cfg) == FALSE

\* if (this.config.accessTokenFn)
UseSupplier(cfg) == "accessTokenFn" \in DOMAIN cfg

UseDirect_AfterSupplier(cfg) == Truthy(cfg, "relayUrl") /\ ~UseSupplier(cfg)

\* if (this.config.relayUrl): direct mode
UseDirect(cfg) == Truthy(cfg, "relayUrl")

GatewayBase_AlwaysDefault(cfg) == DEFAULT_JANUS_URL

\* this.config.janusUrl ?? DEFAULT_JANUS_URL
GatewayBase(cfg) == Coalesce(cfg, "janusUrl", DEFAULT_JANUS_URL)

SupplierInvocations_Twice(cfg) == IF UseSupplier(cfg) THEN 2 ELSE 0

\* how many times one buildRequest awaits this.config.accessTokenFn()
SupplierInvocations(cfg) == IF UseSupplier(cfg) THEN 1 ELSE 0

DirectHeaders_KeyFirst(cfg, token) ==
  IF Truthy(cfg, "internalKey") THEN ("X-Internal-Key" :> cfg["internalKey"])
  ELSE IF UseSupplier(cfg) THEN ("Authorization" :> Bearer(token))
  ELSE <<>>

DirectHeaders_Both(cfg, token) ==
  (IF UseSupplier(cfg) THEN ("Authorization" :> Bearer(token)) ELSE <<>>)
  @@ (IF Truthy(cfg, "internalKey") THEN ("X-Internal-Key" :> cfg["internalKey"]) ELSE <<>>)

\* the auth header of a direct-mode request, once the supplier (if any) resolved
DirectHeaders(cfg, token) ==
  IF UseSupplier(cfg) THEN ("Authorization" :> Bearer(token))
  ELSE IF Truthy(cfg, "internalKey") THEN ("X-Internal-Key" :> cfg["internalKey"])
  ELSE <<>>

\* buildRequest(path): {url, headers} or the thrown error; the token cache
\* afterwards; how often the supplier was awaited and whether a token was minted.
\* sup is what the supplier does if it is awaited.
buildRequest(cfg, path, cached, clock, sup) ==
  IF UseDirect(cfg)
    THEN LET url == cfg["relayUrl"] \o path
         IN  [result |-> IF UseSupplier(cfg) /\ sup.kind = "throw" THEN sup
                         ELSE Return([url |-> url,
                                      headers |-> DirectHeaders(cfg, sup.value)]),
              cache |-> cached, supplied |-> SupplierInvocations(cfg), minted |-> FALSE]
  ELSE LET baseUrl == GatewayBase(cfg)
           url == (baseUrl \o RELAY_API_PATH) \o path
       IN  IF UseSupplier(cfg)
             THEN [result |-> IF sup.kind = "throw" THEN sup
                              ELSE Return([url |-> url,
                                           headers |-> ("Authorization" :> Bearer(sup.value))]),
                   cache |-> cached, supplied |-> SupplierInvocations(cfg), minted |-> FALSE]
           ELSE LET g == getToken(cfg, cached, clock)
                IN  [result |-> IF g.result.kind = "throw" THEN g.result
                                ELSE Return([url |-> url,
                                             headers |-> ("Authorization" :> Bearer(g.result.value))]),
                     cache |-> g.cache, supplied |-> 0, minted |-> g.minted]

----------------------------------------------------------------------------
(* What the network may answer to one outbound call *)

Statuses == {200, 422, 499, 500, 503}

DataValues == {"null", "0", "{messageId:msg-1}", "{templates:[welcome]}"}
ErrorCodes == {"VALIDATION_ERROR"}
DetailValues == {"{template:unknown template}"}

\* response.json() resolves with an ApiResponse envelope ...
Envelopes ==
  {("success" :> "true") @@ d : d \in Opt("data", DataValues)}
  \cup {(("success" :> "false") @@ e) @@ x :
          e \in Opt("error", ErrorCodes), x \in Opt("details", DetailValues)}

\* ... or with the JSON value null, or rejects (the body is not JSON)
JsonNull == [null |-> TRUE]
Bodies == {[json |-> FALSE]} \cup {[json |-> TRUE, value |-> v] : v \in Envelopes \cup {JsonNull}}

\* fetch() rejects: the AbortSignal.timeout DOMException, or a transport TypeError
FetchErrors == {[dom |-> TRUE, name |-> "TimeoutError", message |-> "The operation was aborted due to timeout"],
                [dom |-> FALSE, name |-> "TypeError", message |-> "fetch failed"]}

Outcomes ==
  {[t |-> "reject", err |-> e] : e \in FetchErrors}
  \cup {[t |-> "response", status |-> st, body |-> b] : st \in Statuses, b \in Bodies}

\* One answer of each class: a transport failure, a 5xx, a 4xx, a 2xx with data
AuthOutcomes ==
  {[t |-> "reject", err |-> e] : e \in {x \in FetchErrors : ~x.dom}}
  \cup {[t |-> "response", status |-> 500,
         body |-> [json |-> TRUE, value |-> ("success" :> "false")]],
        [t |-> "response", status |-> 422,
         body |-> [json |-> TRUE,
                   value |-> ("success" :> "false") @@ ("error" :> "VALIDATION_ERROR")]],
        [t |-> "response", status |-> 200,
         body |-> [json |-> TRUE,
                   value |-> ("success" :> "true") @@ ("data" :> "{messageId:msg-1}")]]}

\* The attempt's AbortSignal.timeout fires after the response headers have
\* arrived, while the body is being read: response.json() rejects
AbortedBody == [json |-> FALSE, aborted |-> TRUE]

\* Answers with and without a timeout, before and after the headers
TimeoutOutcomes ==
  {[t |-> "reject", err |-> e] : e \in FetchErrors}
  \cup {[t |-> "response", status |-> st, body |-> b] :
          st \in {200, 503},
          b \in {AbortedBody, [json |-> FALSE],
                 [json |-> TRUE,
                  value |-> ("success" :> "true") @@ ("data" :> "{messageId:msg-1}")]}}

\* Each kind of retryable failure, a 4xx and a success
BackoffOutcomes ==
  {[t |-> "reject", err |-> e] : e \in FetchErrors}
  \cup {[t |-> "response", status |-> 503, body |-> [json |-> FALSE]]}
  \cup {o \in AuthOutcomes : o.t = "response"}

NoOutcome == [t |-> "none"]

\* How an attempt ended, without the body's content: kept of the attempt
\* before the current one
Summary(o) ==
  IF o.t = "response" THEN [t |-> "response", status |-> o.status, json |-> o.body.json]
  ELSE o

ResponseOk(status) == 200 <= status /\ status <= 299

----------------------------------------------------------------------------
(* request(): what follows one attempt's fetch *)

Min(a, b) == IF a <= b THEN a ELSE b

\* baseDelay * (0.5 + Math.random() * 0.5), Math.random() = j / JitterSteps
BackoffDelay_Uncapped(attempt, j) ==
  (BackoffUnitMs * 2 ^ attempt * (JitterSteps + j)) \div (2 * JitterSteps)

BackoffDelay(attempt, j) ==
  LET baseDelay == Min(BackoffUnitMs * 2 ^ attempt, BackoffCapMs)
  IN  (baseDelay * (JitterSteps + j)) \div (2 * JitterSteps)

RetryStep == [next |-> "retry"]
DoneStep(result) == [next |-> "done", result |-> result]

\* reading a property of the JSON value null
NullDeref(prop) ==
  Throw([name |-> "TypeError",
         message |-> "Cannot read properties of null (reading '" \o prop \o "')"])

BudgetRemains_Inclusive(cfg, attempt) == attempt <= cfg["retries"]

\* attempt < this.config.retries
BudgetRemains(cfg, attempt) == attempt < cfg["retries"]

IsServerError_Strict(status) == status > ServerErrorFloor

\* response.status >= 500
IsServerError(status) == status >= ServerErrorFloor

IsTimeout_AbortError(err) == err.dom /\ err.name = "AbortError"

\* err instanceof DOMException && err.name === 'TimeoutError'
IsTimeout(err) == err.dom /\ err.name = "TimeoutError"

HasData_Always(json) == TRUE

HasData_Present(json) == "data" \in DOMAIN json

\* !json.data is false
HasData(json) == ~Falsy(Get(json, "data"))

Unwrap_Envelope(json) == ToString(json)

\* return json.data
Unwrap(json) == Get(json, "data")

ServiceError_NoDetails(status, json) ==
  RelayError(Coalesce(json, "error", "InsureRelay returned " \o ToString(status)),
             status, Get(json, "error"), UNDEF)

\* new RelayError(json.error ?? `InsureRelay returned ${status}`, status, json.error, json.details)
ServiceError(status, json) ==
  RelayError(Coalesce(json, "error", "InsureRelay returned " \o ToString(status)),
             status, Get(json, "error"), Get(json, "details"))

AfterFetch(cfg, attempt, o) ==
  IF o.t = "reject"
    THEN IF BudgetRemains(cfg, attempt) THEN RetryStep
         ELSE LET isTimeout == IsTimeout(o.err)
                  message == IF isTimeout
                               THEN "Request timed out after " \o ToString(cfg["timeoutMs"]) \o "ms"
                               ELSE o.err.message
              IN  DoneStep(Throw(RelayError("Failed to reach InsureRelay: " \o message, 0,
                                            IF isTimeout THEN "TIMEOUT" ELSE "NETWORK_ERROR",
                                            UNDEF)))
  ELSE IF ~o.body.json
    THEN IF IsServerError(o.status) /\ BudgetRemains(cfg, attempt) THEN RetryStep
         ELSE DoneStep(Throw(RelayError("InsureRelay returned " \o ToString(o.status)
                                          \o " with non-JSON body",
                                        o.status, "PARSE_ERROR", UNDEF)))
  ELSE LET json == o.body.value
       IN  IF ~ResponseOk(o.status)
             THEN IF IsServerError(o.status) /\ BudgetRemains(cfg, attempt) THEN RetryStep
                  ELSE IF json = JsonNull THEN DoneStep(NullDeref("error"))
                  ELSE DoneStep(Throw(ServiceError(o.status, json)))
           ELSE IF json = JsonNull THEN DoneStep(NullDeref("data"))
           ELSE IF ~HasData(json)
             THEN DoneStep(Throw(RelayError("InsureRelay returned success but no data",
                                            500, "EMPTY_RESPONSE", UNDEF)))
           ELSE DoneStep(Return(Unwrap(json)))

----------------------------------------------------------------------------
(* sendEmail and sendSMS: the validation before this.send *)

\* An email address or a phone number is the sequence of its characters
DigitChars == {"0", "1", "2", "3", "4", "5", "6", "7", "8", "9"}
SpaceChars == {" ", "\t", "\n"}

\* n digits
Digits(n) == [k \in 1..n |-> "5"]

\* !!o[k] for a property whose value is a sequence of characters
TruthySeq(o, k) == k \in DOMAIN o /\ o[k] # <<>>

\* /^[^\s@]+@[^\s@]+\.[^\s@]+$/.test(e)
EmailRegex(e) ==
  /\ \A k \in 1..Len(e) : e[k] \notin SpaceChars
  /\ Cardinality({k \in 1..Len(e) : e[k] = "@"}) = 1
  /\ LET at == CHOOSE k \in 1..Len(e) : e[k] = "@"
     IN  /\ at > 1
         /\ \E d \in (at + 2)..(Len(e) - 1) : e[d] = "."

E164Regex_NoUpperLimit(p) ==
  /\ Len(p) >= 3
  /\ p[1] = "+"
  /\ p[2] \in DigitChars \ {"0"}
  /\ \A k \in 3..Len(p) : p[k] \in DigitChars

\* /^\+[1-9]\d{1,14}$/.test(p)
E164Regex(p) ==
  /\ Len(p) >= 3 /\ Len(p) <= 16
  /\ p[1] = "+"
  /\ p[2] \in DigitChars \ {"0"}
  /\ \A k \in 3..Len(p) : p[k] \in DigitChars

ValidationError(message) == Throw(RelayError(message, 400, "VALIDATION_ERROR", UNDEF))

Valid == Return("valid")

\* !options.template && !options.content
NeitherGiven(options) == ~Truthy(options, "template") /\ "content" \notin DOMAIN options

BothGiven_Never(options) == FALSE

\* options.template && options.content
BothGiven(options) == Truthy(options, "template") /\ "content" \in DOMAIN options

EmailContentCheck_SubjectOnly(content) ==
  IF ~Truthy(content, "subject") THEN ValidationError("Email content requires a subject")
  ELSE Valid

\* if (options.content) { subject, then html or text }
EmailContentCheck(content) ==
  IF ~Truthy(content, "subject") THEN ValidationError("Email content requires a subject")
  ELSE IF ~Truthy(content, "html") /\ ~Truthy(content, "text")
    THEN ValidationError("Email content requires either html or text")
  ELSE Valid

SmsContentCheck_None(content) == Valid

\* options.content && !options.content.text
SmsContentCheck(content) ==
  IF ~Truthy(content, "text") THEN ValidationError("SMS content requires text")
  ELSE Valid

sendEmailValidation_NoRecipientCheck(options) ==
  IF NeitherGiven(options) THEN ValidationError("Either template or content is required")
  ELSE IF BothGiven(options) THEN ValidationError("Provide template or content, not both")
  ELSE IF "content" \in DOMAIN options THEN EmailContentCheck(options["content"])
  ELSE Valid

\* sendEmail, up to the call of this.send: the thrown RelayError, or Valid
sendEmailValidation(options) ==
  IF ~TruthySeq(options["to"], "email") \/ ~EmailRegex(options["to"]["email"])
    THEN ValidationError("Valid recipient email is required for email channel")
  ELSE IF NeitherGiven(options) THEN ValidationError("Either template or content is required")
  ELSE IF BothGiven(options) THEN ValidationError("Provide template or content, not both")
  ELSE IF "content" \in DOMAIN options THEN EmailContentCheck(options["content"])
  ELSE Valid

\* sendSMS, up to the call of this.send: the thrown RelayError, or Valid
sendSMSValidation(options) ==
  IF ~TruthySeq(options["to"], "phone") \/ ~E164Regex(options["to"]["phone"])
    THEN ValidationError("Recipient phone must be in E.164 format (e.g., +15551234567)")
  ELSE IF NeitherGiven(options) THEN ValidationError("Either template or content is required")
  ELSE IF BothGiven(options) THEN ValidationError("Provide template or content, not both")
  ELSE IF "content" \in DOMAIN options THEN SmsContentCheck(options["content"])
  ELSE Valid

\* the SendRequest sendEmail / sendSMS hand to this.send, as JSON.stringify
\* writes it (properties whose value is undefined are left out)
SendRequestOf(channel, options, cfg) ==
  LET metadata == Coalesce(options, "metadata", <<>>)
      sourceAction == Coalesce(metadata, "sourceAction",
                               Coalesce(options, "template", "raw_" \o channel))
  IN  (IF Truthy(options, "template") THEN "template" :> options["template"] ELSE <<>>)
      @@ (IF "content" \in DOMAIN options THEN "content" :> options["content"] ELSE <<>>)
      @@ ("channel" :> channel)
      @@ ("recipient" :> options["to"])
      @@ ("data" :> Coalesce(options, "data", <<>>))
      @@ ("metadata" :>
            (("sourceService" :> Coalesce(metadata, "sourceService", cfg["sourceService"]))
             @@ ("sourceAction" :> sourceAction)
             @@ (IF "correlationId" \in DOMAIN metadata
                   THEN "correlationId" :> metadata["correlationId"] ELSE <<>>)))

\* Inputs of sendEmail and sendSMS
EmailAddresses ==
  {<<>>,
   <<"a", "@", "b", ".", "c">>,
   <<"a", "@", "b", ".", ".", "c">>,
   <<"a", "@", "b">>,
   <<"a", "b", ".", "c">>,
   <<"a", " ", "@", "b", ".", "c">>,
   <<"a", "@", "b", "@", "c", ".", "d">>,
   <<"@", "b", ".", "c">>,
   <<"a", "@", ".", "c">>,
   <<"a", "@", "b", ".">>}

PhoneNumbers ==
  {<<>>,
   <<"+", "1">>,
   <<"+", "1", "5">>,
   <<"+", "1">> \o Digits(14),
   <<"+", "1">> \o Digits(15),
   <<"5", "5", "5", "1", "2", "3", "4">>,
   <<"+", "0", "1", "2">>,
   <<"+", "1", "a", "5">>,
   <<"+", "1", "5", " ">>}

Recipients ==
  {e @@ p : e \in Opt("email", EmailAddresses), p \in Opt("phone", {<<"+", "1", "5">>})}
  \cup {("name" :> "Test") @@ p : p \in Opt("phone", PhoneNumbers)}

ContentPayloads ==
  {s @@ h @@ t : s \in Opt("subject", {"", "Hi"}), h \in Opt("html", {"<p>Hello</p>"}),
                 t \in Opt("text", {"Your code is 123456"})}

SendOptions ==
  {("to" :> r) @@ t @@ c :
     r \in Recipients, t \in Opt("template", {"", "welcome"}),
     c \in Opt("content", ContentPayloads)}

\* MessageMetadata a caller may pass
Metadatas ==
  {<<>>,
   "sourceAction" :> "signup",
   "sourceAction" :> "",
   ("sourceService" :> "billing") @@ ("correlationId" :> "corr-1")}

\* Inputs with a valid recipient for both channels, with and without metadata
MetaOptions ==
  {("to" :> (("email" :> <<"a", "@", "b", ".", "c">>) @@ ("phone" :> <<"+", "1", "5">>)))
     @@ t @@ c @@ m :
     t \in Opt("template", {"", "welcome"}),
     c \in Opt("content", {("subject" :> "Hi") @@ ("text" :> "Your code is 123456")}),
     m \in Opt("metadata", Metadatas)}

----------------------------------------------------------------------------
(* The calls a caller can make: send, getStatus, listTemplates *)

MessageIds == {"msg-123"}

SendBodies ==
  {[channel |-> "email", template |-> "welcome",
    recipient |-> [email |-> "test@test.com"], data |-> <<>>,
    metadata |-> [sourceService |-> "unknown", sourceAction |-> "welcome"]]}

\* method, path and the optional body argument (a sequence of at most one value)
Calls ==
  {[op |-> "send", method |-> "POST", path |-> "/send", body |-> <<b>>] : b \in SendBodies}
  \cup {[op |-> "getStatus", method |-> "GET", path |-> "/status/" \o m, body |-> <<>>] :
          m \in MessageIds}
  \cup {[op |-> "listTemplates", method |-> "GET", path |-> "/templates", body |-> <<>>]}

NoRequest == [none |-> TRUE]
NoInput == [none |-> TRUE]
NoProbe == [fn |-> "none"]

IdleReq ==
  [pc |-> "idle", op |-> "none", method |-> "", path |-> "", body |-> <<>>, attempt |-> 0,
   calls |-> 0, sent |-> NoRequest, prev |-> NoOutcome, last |-> NoOutcome, delay |-> 0,
   supplierCalls |-> 0, supplied |-> NoToken, acq |-> NoResult,
   input |-> NoInput, result |-> NoResult]

\* fetchOptions of one attempt
FetchOptions(r, built) ==
  [url |-> built.url, method |-> r.method,
   headers |-> built.headers
               @@ (IF r.body # <<>> THEN ("Content-Type" :> "application/json") ELSE <<>>),
   body |-> r.body,
   timeoutMs |-> config["timeoutMs"]]

OnBuildFailure_Retry(r, thrown) ==
  [r EXCEPT !.pc = "sleeping", !.acq = thrown, !.delay = BackoffDelay(r.attempt, 0)]

\* await this.buildRequest(path) throws: request() has no handler around it,
\* the promise it returned rejects with what was thrown
OnBuildFailure(r, thrown) == [r EXCEPT !.pc = "done", !.acq = thrown, !.result = thrown]

\* One attempt of request(): buildRequest, then the outbound fetch is issued;
\* a failure of buildRequest rejects the request.
Attempt(i, r, sup) ==
  LET b == buildRequest(config, r.path, cachedToken, now, sup)
      q == [r EXCEPT !.supplierCalls = @ + b.supplied,
                     !.supplied = IF b.supplied > 0 /\ sup.kind = "return"
                                    THEN sup.value ELSE NoToken]
  IN  /\ cachedToken' = b.cache
      /\ mints' = mints + (IF b.minted THEN 1 ELSE 0)
      /\ req' = [req EXCEPT ![i] =
                   IF b.result.kind = "throw"
                     THEN OnBuildFailure(q, b.result)
                   ELSE [q EXCEPT !.pc = "inflight", !.calls = @ + 1,
                                  !.sent = FetchOptions(r, b.result.value)]]

----------------------------------------------------------------------------
(* Actions *)

Init ==
  /\ client = "unbuilt"
  /\ config = <<>>
  /\ cachedToken = NoToken
  /\ now = 0
  /\ req = [i \in Requests |-> IdleReq]
  /\ given = <<>>
  /\ env = <<>>
  /\ mints = 0
  /\ probe = NoProbe
  /\ bio = NoBio

\* new RelayClient(c)
Construct(c) ==
  /\ client = "unbuilt"
  /\ LET k == Constructor(c)
     IN  IF k.kind = "throw"
           THEN client' = "failed" /\ config' = config
           ELSE client' = "ready" /\ config' = k.value
  /\ given' = c
  /\ UNCHANGED <<cachedToken, now, req, env, mints, probe, bio>>

\* RelayClient.fromEnv() with process.env = e
FromEnv(e) ==
  /\ client = "unbuilt"
  /\ LET k == fromEnv(e)
     IN  IF k.kind = "throw"
           THEN client' = "failed" /\ config' = config
           ELSE client' = "ready" /\ config' = k.value
  /\ env' = e
  /\ given' = EnvConfig(e)
  /\ UNCHANGED <<cachedToken, now, req, mints, probe, bio>>

\* send / getStatus / listTemplates: request(method, path, body) with attempt = 0
Call(i, c, sup) ==
  /\ client = "ready"
  /\ req[i].pc = "idle"
  /\ Attempt(i, [IdleReq EXCEPT !.op = c.op, !.method = c.method, !.path = c.path,
                                !.body = c.body], sup)
  /\ UNCHANGED <<client, config, now, given, env, probe, bio>>

\* sendEmail(options): validation, then this.send(body)
SendEmail(i, options, sup) ==
  /\ client = "ready"
  /\ req[i].pc = "idle"
  /\ LET v == sendEmailValidation(options)
         r == [IdleReq EXCEPT !.op = "sendEmail", !.input = options]
     IN  IF v.kind = "throw"
           THEN /\ req' = [req EXCEPT ![i] = [r EXCEPT !.pc = "done", !.result = v]]
                /\ UNCHANGED <<cachedToken, mints>>
           ELSE Attempt(i, [r EXCEPT !.method = "POST", !.path = "/send",
                                     !.body = <<SendRequestOf("email", options, config)>>], sup)
  /\ UNCHANGED <<client, config, now, given, env, probe, bio>>

\* sendSMS(options): validation, then this.send(body)
SendSMS(i, options, sup) ==
  /\ client = "ready"
  /\ req[i].pc = "idle"
  /\ LET v == sendSMSValidation(options)
         r == [IdleReq EXCEPT !.op = "sendSMS", !.input = options]
     IN  IF v.kind = "throw"
           THEN /\ req' = [req EXCEPT ![i] = [r EXCEPT !.pc = "done", !.result = v]]
                /\ UNCHANGED <<cachedToken, mints>>
           ELSE Attempt(i, [r EXCEPT !.method = "POST", !.path = "/send",
                                     !.body = <<SendRequestOf("sms", options, config)>>], sup)
  /\ UNCHANGED <<client, config, now, given, env, probe, bio>>

\* the caller makes its next call once the previous one has settled
CallAgain(i, c, sup) ==
  /\ client = "ready"
  /\ req[i].pc = "done"
  /\ mints < MaxMints
  /\ Attempt(i, [IdleReq EXCEPT !.op = c.op, !.method = c.method, !.path = c.path,
                                !.body = c.body], sup)
  /\ UNCHANGED <<client, config, now, given, env, probe, bio>>

\* the outbound call of the current attempt settles with outcome o
Settle(i, o, j) ==
  /\ req[i].pc = "inflight"
  /\ LET r == req[i]
         s == AfterFetch(config, r.attempt, o)
     IN  req' = [req EXCEPT ![i] =
                   IF s.next = "retry"
                     THEN [r EXCEPT !.pc = "sleeping", !.last = o,
                                    !.delay = BackoffDelay(r.attempt, j)]
                   ELSE [r EXCEPT !.pc = "done", !.last = o, !.result = s.result]]
  /\ UNCHANGED <<client, config, cachedToken, now, given, env, mints, probe, bio>>

\* the backoff sleep ends: request(method, path, body, attempt + 1)
Wake(i, sup) ==
  /\ req[i].pc = "sleeping"
  /\ Attempt(i, [req[i] EXCEPT !.attempt = @ + 1, !.delay = 0,
                               !.prev = Summary(req[i].last), !.last = NoOutcome], sup)
  /\ UNCHANGED <<client, config, now, given, env, probe, bio>>

\* a caller asks isTokenExpired about a token.  The jwt helpers are exported
\* functions that read nothing of a client; they are called on their own here,
\* before any client is built.
CheckExpired(t, b) ==
  /\ client = "unbuilt"
  /\ probe' = [fn |-> "isTokenExpired", token |-> t, buffer |-> b, at |-> now,
               result |-> isTokenExpiredCall(t, b, now), mint |-> NoProbe]
  /\ UNCHANGED <<client, config, cachedToken, now, req, given, env, mints, bio>>

\* a caller mints a token; the mint made just before it, if any, is kept
MintProbe(secret, programId, ttl) ==
  /\ client = "unbuilt"
  /\ probe' = [fn |-> "mintServiceJwt", secret |-> secret, programId |-> programId,
               ttl |-> ttl, at |-> now,
               result |-> mintServiceJwtCall(secret, programId, ttl, now),
               before |-> IF probe.fn = "mintServiceJwt"
                            THEN [probe EXCEPT !.before = NoProbe] ELSE NoProbe]
  /\ UNCHANGED <<client, config, cachedToken, now, req, given, env, mints, bio>>

\* the mint whose token is in the caller's hands
MintInHand ==
  IF probe.fn = "mintServiceJwt" THEN [probe EXCEPT !.before = NoProbe]
  ELSE IF probe.fn = "isTokenExpired" THEN probe.mint
  ELSE NoProbe

\* a caller asks isTokenExpired about the token it minted, now or later
CheckMinted(b) ==
  /\ client = "unbuilt"
  /\ MintInHand # NoProbe
  /\ MintInHand.result.kind = "return"
  /\ probe' = [fn |-> "isTokenExpired", token |-> MintInHand.result.value, buffer |-> b,
               at |-> now, result |-> isTokenExpiredCall(MintInHand.result.value, b, now),
               mint |-> MintInHand]
  /\ UNCHANGED <<client, config, cachedToken, now, req, given, env, mints, bio>>

\* accessTokenFn() is called: the cached token is returned, or the token
\* endpoint is called
BioCall ==
  /\ client = "ready"
  /\ Truthy(env, "BIO_CLIENT_ID")
  /\ UseSupplier(config)
  /\ bio.pc = "idle"
  /\ bio' = IF BioCacheHit(bio, now)
              THEN [bio EXCEPT !.result = Return(bio.cachedBioToken), !.reusedAt = <<now>>]
            ELSE [bio EXCEPT !.pc = "fetching", !.started = now,
                             !.reusedAt = <<>>, !.result = NoResult]
  /\ UNCHANGED <<client, config, cachedToken, now, req, given, env, mints, probe>>

\* the call of the token endpoint settles with answer o
BioSettle(o) ==
  /\ bio.pc = "fetching"
  /\ bio' =
       IF o.t = "reject" THEN [bio EXCEPT !.pc = "idle", !.result = Throw(o.err)]
       ELSE IF ~o.ok
         THEN [bio EXCEPT !.pc = "idle",
                          !.result = Throw(RelayError("Bio-ID token request failed", o.status,
                                                      "AUTH_ERROR", UNDEF))]
       ELSE [bio EXCEPT !.pc = "idle",
                        !.cachedBioToken = o.data["access_token"],
                        !.bioTokenExpiresAt = (bio.started + ExpiresInOf(o.data)) - BioBufferSeconds,
                        !.issued = bio.started,
                        !.declared = IF "expires_in" \in DOMAIN o.data
                                       THEN <<o.data["expires_in"]>> ELSE <<>>,
                        !.result = Return(o.data["access_token"])]
  /\ UNCHANGED <<client, config, cachedToken, now, req, given, env, mints, probe>>

\* d seconds pass: single seconds around the start and around the default
\* expiry, and the long wait between them
Elapse(d) ==
  /\ IF d = 1 THEN now % LongWait < BioSteps ELSE now < BioSteps
  /\ now' = now + d
  /\ UNCHANGED <<client, config, cachedToken, req, given, env, mints, probe, bio>>

\* the clock (whole seconds) advances
Tick ==
  /\ now < MaxClock
  /\ now' = now + 1
  /\ UNCHANGED <<client, config, cachedToken, req, given, env, mints, probe, bio>>

Next ==
  \/ \E c \in EngineConfigs : Construct(c)
  \/ \E i \in Requests, c \in Calls, sup \in SupplierOutcomes : Call(i, c, sup)
  \/ \E i \in Requests, o \in Outcomes, j \in 0..(JitterSteps - 1) : Settle(i, o, j)
  \/ \E i \in Requests, sup \in SupplierOutcomes : Wake(i, sup)
  \/ Tick

\* The request engine: a configuration of each auth mode with every retry
\* budget, against everything the network may answer
Spec == Init /\ [][Next]_vars

NextAuth ==
  \/ \E c \in Configs : Construct(c)
  \/ \E i \in Requests, c \in Calls, sup \in SupplierOutcomes : Call(i, c, sup)
  \/ \E i \in Requests, c \in Calls, sup \in SupplierOutcomes : CallAgain(i, c, sup)
  \/ \E i \in Requests, o \in AuthOutcomes, j \in 0..(JitterSteps - 1) : Settle(i, o, j)
  \/ \E i \in Requests, sup \in SupplierOutcomes : Wake(i, sup)
  \/ Tick

\* Auth and routing: every configuration, against one answer of each class
SpecAuth == Init /\ [][NextAuth]_vars

NextEnv ==
  \/ \E e \in Envs : FromEnv(e)
  \/ \E i \in Requests, c \in Calls, sup \in SupplierOutcomes : Call(i, c, sup)
  \/ \E i \in Requests, o \in AuthOutcomes, j \in 0..(JitterSteps - 1) : Settle(i, o, j)
  \/ \E i \in Requests, sup \in SupplierOutcomes : Wake(i, sup)
  \/ Tick

Concurrent == 1..NumConcurrent

\* the supplier is not configured in legacy mode and is never awaited
UnusedSupplier == Return(<<"bio-token-1">>)

LegacyCalls == {c \in Calls : c.op = "getStatus"}
LegacyOutcomes == {o \in AuthOutcomes : o.t = "response" /\ o.status \in {200, 500}}

InitLegacy ==
  /\ client = "unbuilt"
  /\ config = <<>>
  /\ cachedToken = NoToken
  /\ now = 0
  /\ req = [i \in Concurrent |-> IdleReq]
  /\ given = <<>>
  /\ env = <<>>
  /\ mints = 0
  /\ probe = NoProbe
  /\ bio = NoBio

NextLegacy ==
  \/ \E c \in LegacyConfigs : Construct(c)
  \/ \E i \in Concurrent, c \in LegacyCalls : Call(i, c, UnusedSupplier)
  \/ \E i \in Concurrent, c \in LegacyCalls : CallAgain(i, c, UnusedSupplier)
  \/ \E i \in Concurrent, o \in LegacyOutcomes : Settle(i, o, 0)
  \/ \E i \in Concurrent : Wake(i, UnusedSupplier)
  \/ Tick

\* Concurrent requests on one legacy-mode client
SpecLegacy == InitLegacy /\ [][NextLegacy]_vars

NextJwt ==
  \/ \E t \in ProbeTokens, b \in ProbeBuffers : CheckExpired(t, b)
  \/ \E s \in ProbeSecrets, p \in ProbePrograms, t \in ProbeTtls : MintProbe(s, p, t)
  \/ \E b \in ProbeBuffers : CheckMinted(b)
  \/ \E c \in LegacyConfigs : probe = NoProbe /\ Construct(c)
  \/ \E i \in Requests, c \in LegacyCalls : Call(i, c, UnusedSupplier)
  \/ \E i \in Requests, o \in LegacyOutcomes : Settle(i, o, 0)
  \/ \E i \in Requests : Wake(i, UnusedSupplier)
  \/ Tick

\* The jwt helpers: a caller calls them directly, or builds a legacy-mode
\* client that calls them
SpecJwt == Init /\ [][NextJwt]_vars

\* A delegated and a legacy client for sendEmail / sendSMS
SendConfigs ==
  {("accessTokenFn" :> "function") @@ ("sourceService" :> "ppay-board") @@ ("retries" :> 1),
   ("jwtSecret" :> "370e0b7a6c0f59b8979701ad239fda3cfafb1ce0215e70497b8ddea2f7ba44ee")
     @@ ("programId" :> "test-org") @@ ("retries" :> 1)}

NextSend ==
  \/ \E c \in SendConfigs : Construct(c)
  \/ \E i \in Requests, o \in SendOptions, sup \in SupplierOutcomes : SendEmail(i, o, sup)
  \/ \E i \in Requests, o \in SendOptions, sup \in SupplierOutcomes : SendSMS(i, o, sup)
  \/ \E i \in Requests, o \in LegacyOutcomes : Settle(i, o, 0)
  \/ \E i \in Requests, sup \in SupplierOutcomes : Wake(i, sup)
  \/ Tick

\* sendEmail and sendSMS on a delegated and on a legacy client
SpecSend == Init /\ [][NextSend]_vars

NextMeta ==
  \/ \E c \in SendConfigs : Construct(c)
  \/ \E i \in Requests, o \in MetaOptions, sup \in SupplierOutcomes : SendEmail(i, o, sup)
  \/ \E i \in Requests, o \in MetaOptions, sup \in SupplierOutcomes : SendSMS(i, o, sup)
  \/ \E i \in Requests, o \in LegacyOutcomes : Settle(i, o, 0)
  \/ \E i \in Requests, sup \in SupplierOutcomes : Wake(i, sup)
  \/ Tick

\* sendEmail and sendSMS with the caller's metadata
SpecMeta == Init /\ [][NextMeta]_vars

NextTimeout ==
  \/ \E c \in TimeoutConfigs : Construct(c)
  \/ \E i \in Requests, c \in Calls : Call(i, c, UnusedSupplier)
  \/ \E i \in Requests, o \in TimeoutOutcomes, j \in 0..(JitterSteps - 1) : Settle(i, o, j)
  \/ \E i \in Requests : Wake(i, UnusedSupplier)
  \/ Tick

\* The request timeout: it may fire before or after the response headers
SpecTimeout == Init /\ [][NextTimeout]_vars

NextBackoff ==
  \/ \E c \in BackoffConfigs : Construct(c)
  \/ \E i \in Requests, c \in LegacyCalls : Call(i, c, UnusedSupplier)
  \/ \E i \in Requests, o \in BackoffOutcomes, j \in 0..(JitterSteps - 1) : Settle(i, o, j)
  \/ \E i \in Requests : Wake(i, UnusedSupplier)
  \/ Tick

\* The backoff waits of a request with up to BackoffRetries retries
SpecBackoff == Init /\ [][NextBackoff]_vars

NextFrame ==
  \/ \E c \in FrameConfigs : Construct(c)
  \/ \E i \in Requests, c \in Calls, sup \in SupplierOutcomes : Call(i, c, sup)
  \/ \E i \in Requests, o \in MetaOptions, sup \in SupplierOutcomes : SendEmail(i, o, sup)
  \/ \E i \in Requests, o \in MetaOptions, sup \in SupplierOutcomes : SendSMS(i, o, sup)
  \/ \E i \in Requests, c \in Calls, sup \in SupplierOutcomes : CallAgain(i, c, sup)
  \/ \E i \in Requests, o \in LegacyOutcomes : Settle(i, o, 0)
  \/ \E i \in Requests, sup \in SupplierOutcomes : Wake(i, sup)
  \/ Tick

\* Every operation of a client of each mode: what touches the token cache
SpecFrame == Init /\ [][NextFrame]_vars

\* An environment that selects the Bio-ID supplier
BioEnvs ==
  {e \in Envs : /\ ~Truthy(e, "RELAY_DIRECT_URL")
                /\ Truthy(e, "BIO_CLIENT_ID") /\ Truthy(e, "BIO_CLIENT_SECRET")
                /\ DOMAIN e \subseteq {"RELAY_DIRECT_URL", "BIO_CLIENT_ID", "BIO_CLIENT_SECRET"}}

NextBio ==
  \/ \E e \in BioEnvs : FromEnv(e)
  \/ BioCall
  \/ \E o \in BioResponses : BioSettle(o)
  \/ \E d \in {1, LongWait} : Elapse(d)

\* The supplier of a client built by fromEnv, called again and again
SpecBio == Init /\ [][NextBio]_vars

NextConfig ==
  \/ \E c \in CredentialConfigs : Construct(c)
  \/ \E i \in Requests, c \in Calls, sup \in SupplierOutcomes : Call(i, c, sup)
  \/ \E i \in Requests, o \in AuthOutcomes, j \in 0..(JitterSteps - 1) : Settle(i, o, j)
  \/ \E i \in Requests, sup \in SupplierOutcomes : Wake(i, sup)
  \/ Tick

\* Requests on every client the constructor lets through
SpecConfig == Init /\ [][NextConfig]_vars

NextLive ==
  \/ \E c \in EngineConfigs : Construct(c)
  \/ \E i \in Requests, c \in Calls, sup \in SupplierOutcomes : Call(i, c, sup)
  \/ \E i \in Requests, o \in BackoffOutcomes, j \in 0..(JitterSteps - 1) : Settle(i, o, j)
  \/ \E i \in Requests, sup \in SupplierOutcomes : Wake(i, sup)
  \/ Tick

\* every outbound call settles (it completes, fails, or its AbortSignal.timeout
\* fires), and every sleep ends (setTimeout fires) with the next attempt, whose
\* credential acquisition completes or fails
Fairness ==
  \A i \in Requests :
    /\ WF_vars(\E o \in BackoffOutcomes, j \in 0..(JitterSteps - 1) : Settle(i, o, j))
    /\ WF_vars(\E sup \in SupplierOutcomes : Wake(i, sup))

\* The request engine when the network and the timers make progress
SpecLive == Init /\ [][NextLive]_vars /\ Fairness

\* Clients built by fromEnv from every environment
SpecEnv == Init /\ [][NextEnv]_vars

----------------------------------------------------------------------------
(* Properties of the request engine (Spec) *)

IsResponse(o) == o.t = "response"
IsReject(o) == o.t = "reject"

\* a response whose body parsed as a JSON object (an ApiResponse envelope)
IsEnvelope(o) == IsResponse(o) /\ o.body.json /\ o.body.value # JsonNull

\* a RelayError with this statusCode and code was raised
Raised(r, statusCode, code) ==
  /\ r.result.kind = "throw"
  /\ r.result.error.name = "RelayError"
  /\ r.result.error.statusCode = statusCode
  /\ r.result.error.code = code

\* attempt r.attempt has made its outbound call and the call has settled
Settled(r) == r.last # NoOutcome

\* C1: a request makes at most retries + 1 outbound calls (at most one when
\* retries = 0), whatever the attempts' outcomes are.
C1_CallsAtMostRetriesPlusOne ==
  client = "ready" =>
    \A i \in Requests : req[i].calls <= config["retries"] + 1

C1_Witness ==
  /\ client = "ready"
  /\ config["retries"] >= 2
  /\ \E i \in Requests : req[i].pc = "done" /\ req[i].calls = config["retries"] + 1

\* C2: a further attempt follows only a transport failure or a response with
\* status >= 500; a response with status 400..499 ends the request after that
\* attempt with a raised RelayError and no further outbound call.
C2_RetryOnlyTransportOr5xx ==
  \A i \in Requests :
    LET r == req[i]
    IN  /\ r.pc = "sleeping"
             => (IsReject(r.last) \/ (IsResponse(r.last) /\ r.last.status >= 500))
        /\ r.attempt > 0
             => (IsReject(r.prev) \/ (IsResponse(r.prev) /\ r.prev.status >= 500))
        /\ (IsResponse(r.last) /\ r.last.status \in 400..499)
             => /\ r.pc = "done"
                /\ r.calls = r.attempt + 1
                /\ r.result.kind = "throw"
                /\ r.result.error.name = "RelayError"

C4_TransportFailureClassified ==
  client = "ready" =>
    \A i \in Requests :
      LET r == req[i]
      IN  (Settled(r) /\ IsReject(r.last) /\ r.attempt = config["retries"])
          => /\ r.pc = "done"
             /\ Raised(r, 0, IF r.last.err.name = "TimeoutError"
                               THEN "TIMEOUT" ELSE "NETWORK_ERROR")

C4_Witness ==
  \E i \in Requests :
    LET r == req[i]
    IN  /\ r.pc = "done" /\ r.attempt >= 1
        /\ IsReject(r.prev) /\ r.prev.err.name = "TypeError"
        /\ IsReject(r.last) /\ r.last.err.name = "TimeoutError"
        /\ Raised(r, 0, "TIMEOUT")

\* C5: a response whose body is not valid JSON is retried when its status is
\* >= 500 and attempt < retries; otherwise the request fails with a RelayError
\* PARSE_ERROR whose statusCode is that response's HTTP status.
C5_NonJsonBody ==
  client = "ready" =>
    \A i \in Requests :
      LET r == req[i]
      IN  (Settled(r) /\ IsResponse(r.last) /\ ~r.last.body.json)
          => IF r.last.status >= 500 /\ r.attempt < config["retries"]
               THEN r.pc = "sleeping"
               ELSE r.pc = "done" /\ Raised(r, r.last.status, "PARSE_ERROR")

C5_Witness ==
  /\ client = "ready"
  /\ \E i \in Requests :
       LET r == req[i]
       IN  /\ r.pc = "done" /\ r.attempt = config["retries"] /\ r.attempt >= 1
           /\ IsResponse(r.prev) /\ ~r.prev.json /\ r.prev.status = 503
           /\ IsResponse(r.last) /\ ~r.last.body.json /\ r.last.status = 503
           /\ Raised(r, 503, "PARSE_ERROR")

\* C6: a non-2xx response whose body parsed as a JSON envelope and that is not
\* retried (status < 500, or attempt = retries) fails the request with a
\* RelayError whose statusCode is the HTTP status, whose code is the
\* envelope's error field and whose details is the envelope's details field.
C6_ServiceErrorPropagated ==
  client = "ready" =>
    \A i \in Requests :
      LET r == req[i]
      IN  (/\ Settled(r) /\ IsEnvelope(r.last) /\ r.last.status \notin 200..299
           /\ (r.last.status < 500 \/ r.attempt = config["retries"]))
          => /\ r.pc = "done"
             /\ Raised(r, r.last.status, Get(r.last.body.value, "error"))
             /\ r.result.error.details = Get(r.last.body.value, "details")

C6_Witness ==
  \E i \in Requests :
    LET r == req[i]
    IN  /\ r.pc = "done" /\ IsEnvelope(r.last) /\ r.last.status = 422
        /\ Raised(r, 422, "VALIDATION_ERROR")
        /\ r.result.error.details = "{template:unknown template}"

\* C7: a 2xx response whose JSON envelope has no data fails the request with a
\* RelayError of statusCode 500 and code EMPTY_RESPONSE and is never retried,
\* even when attempt < retries.
C7_EmptyResponseNotRetried ==
  \A i \in Requests :
    LET r == req[i]
    IN  (/\ Settled(r) /\ IsEnvelope(r.last) /\ r.last.status \in 200..299
         /\ "data" \notin DOMAIN r.last.body.value)
        => r.pc = "done" /\ Raised(r, 500, "EMPTY_RESPONSE")

C7_Witness ==
  /\ client = "ready"
  /\ \E i \in Requests :
       LET r == req[i]
       IN  /\ r.pc = "done" /\ r.attempt < config["retries"] /\ r.calls = r.attempt + 1
           /\ IsEnvelope(r.last) /\ r.last.status = 200
           /\ "data" \notin DOMAIN r.last.body.value
           /\ Raised(r, 500, "EMPTY_RESPONSE")

----------------------------------------------------------------------------
(* Properties of auth and routing (SpecAuth) *)

\* the strategy the stated precedence gives a configuration
PrecedenceMode(cfg) ==
  IF Truthy(cfg, "relayUrl") THEN "Direct"
  ELSE IF "accessTokenFn" \in DOMAIN cfg THEN "Delegated"
  ELSE "Legacy"

GatewayUrl(cfg, path) ==
  ((IF "janusUrl" \in DOMAIN cfg THEN cfg["janusUrl"] ELSE DEFAULT_JANUS_URL)
     \o "/api/relay") \o path

\* a token minted by mintServiceJwt: three segments, the last an HMAC
IsLegacyToken(t) == Len(t) = 3

SentBearer(sent) == sent.headers["Authorization"].token

\* C9: every outbound attempt of a constructed client follows the one strategy
\* the precedence gives: Direct if relayUrl is set (non-empty), otherwise
\* Delegated if accessTokenFn is set, otherwise Legacy; the legacy token is
\* neither minted nor sent when relayUrl or accessTokenFn is configured.
C9_OneStrategyByPrecedence ==
  client = "ready" =>
    /\ PrecedenceMode(config) # "Legacy" => cachedToken = NoToken
    /\ \A i \in Requests :
         LET r == req[i]
         IN  r.calls > 0 =>
               CASE PrecedenceMode(config) = "Direct" ->
                      /\ r.sent.url = config["relayUrl"] \o r.path
                      /\ "Authorization" \in DOMAIN r.sent.headers
                           => SentBearer(r.sent) \in SupplierTokens
                 [] PrecedenceMode(config) = "Delegated" ->
                      /\ r.sent.url = GatewayUrl(config, r.path)
                      /\ "Authorization" \in DOMAIN r.sent.headers
                      /\ SentBearer(r.sent) \in SupplierTokens
                 [] OTHER ->
                      /\ r.sent.url = GatewayUrl(config, r.path)
                      /\ "Authorization" \in DOMAIN r.sent.headers
                      /\ IsLegacyToken(SentBearer(r.sent))
                      /\ IsLegacyToken(cachedToken)

C9_Witness ==
  /\ client = "ready"
  /\ {"relayUrl", "accessTokenFn", "jwtSecret", "programId"} \subseteq DOMAIN config
  /\ config["relayUrl"] # ""
  /\ cachedToken = NoToken
  /\ \E i \in Requests :
       /\ req[i].pc = "inflight" /\ req[i].attempt = 1
       /\ req[i].sent.url = "http://localhost:3001/send"

\* C10: every outbound request carries at most one of the Authorization and
\* X-Internal-Key headers.
C10_AtMostOneAuthHeader ==
  \A i \in Requests :
    req[i].calls > 0 =>
      Cardinality(DOMAIN req[i].sent.headers \cap {"Authorization", "X-Internal-Key"}) <= 1

C10_Witness ==
  /\ client = "ready"
  /\ {"relayUrl", "accessTokenFn", "internalKey"} \subseteq DOMAIN config
  /\ config["relayUrl"] # ""
  /\ \E i \in Requests :
       /\ req[i].pc = "inflight"
       /\ DOMAIN req[i].sent.headers \cap {"Authorization", "X-Internal-Key"}
            = {"Authorization"}

AuthHeaders(sent) == DOMAIN sent.headers \cap {"Authorization", "X-Internal-Key"}

\* C11: in direct mode (relayUrl set), a request carries Authorization: Bearer
\* <what the supplier returned> and no X-Internal-Key when accessTokenFn is
\* configured, also when internalKey is configured too; otherwise X-Internal-Key
\* with the configured (non-empty) internalKey and no Authorization; otherwise
\* neither of the two headers.
C11_DirectModeHeaders ==
  (client = "ready" /\ Truthy(config, "relayUrl")) =>
    \A i \in DOMAIN req :
      LET r == req[i]
      IN  r.calls > 0 =>
            IF "accessTokenFn" \in DOMAIN config
              THEN /\ AuthHeaders(r.sent) = {"Authorization"}
                   /\ r.sent.headers["Authorization"].scheme = "Bearer"
                   /\ r.acq = NoResult => SentBearer(r.sent) = r.supplied
            ELSE IF "internalKey" \in DOMAIN config /\ config["internalKey"] # ""
              THEN /\ AuthHeaders(r.sent) = {"X-Internal-Key"}
                   /\ r.sent.headers["X-Internal-Key"] = config["internalKey"]
            ELSE AuthHeaders(r.sent) = {}

C11_Witness ==
  /\ client = "ready"
  /\ Truthy(config, "relayUrl")
  /\ {"accessTokenFn", "internalKey"} \subseteq DOMAIN config
  /\ config["internalKey"] = "test-key"
  /\ \E i \in DOMAIN req :
       /\ req[i].pc = "inflight" /\ req[i].supplied = <<"bio-token-2">>
       /\ req[i].sent.headers = ("Authorization" :> Bearer(<<"bio-token-2">>))

\* the target the routing rule gives a path
ExpectedTarget(cfg, path) ==
  IF Truthy(cfg, "relayUrl") THEN cfg["relayUrl"] \o path
  ELSE IF "janusUrl" \in DOMAIN cfg THEN (cfg["janusUrl"] \o "/api/relay") \o path
  ELSE "http://janus.janus-prod.svc.cluster.local:3000/api/relay" \o path

\* request i makes a retry attempt in this step
RetryAttemptStep(i) ==
  /\ req[i].pc = "sleeping"
  /\ req'[i].pc = "inflight"

\* C12: for every path, a direct-mode request targets exactly relayUrl followed
\* by the path and a gateway-mode request exactly (janusUrl if configured, else
\* the default gateway URL) followed by /api/relay and the path; a retry
\* targets the URL the attempt before it targeted.
C12_TargetUrl ==
  /\ [](client = "ready" =>
          \A i \in DOMAIN req :
            req[i].calls > 0 => req[i].sent.url = ExpectedTarget(config, req[i].path))
  /\ [][\A i \in DOMAIN req : RetryAttemptStep(i) => req'[i].sent.url = req[i].sent.url]_vars

C12_Witness ==
  /\ client = "ready"
  /\ DOMAIN config \cap {"relayUrl", "janusUrl"} = {}
  /\ \E i \in DOMAIN req :
       /\ req[i].pc = "inflight" /\ req[i].attempt = 1 /\ req[i].calls = 2
       /\ req[i].sent.url
            = "http://janus.janus-prod.svc.cluster.local:3000/api/relay/status/msg-123"

\* request i makes an attempt (the first one or a retry) in this step
AttemptStep(i) ==
  /\ req[i].pc \in {"idle", "sleeping", "done"}
  /\ req'[i] # req[i]

\* the supplier invocations counted before the step, for the request that the
\* step continues (a new call starts counting afresh)
SupplierCallsBefore(i) == IF req[i].pc = "sleeping" THEN req[i].supplierCalls ELSE 0

\* C13: in delegated mode every outbound attempt, the first and each retry, is
\* preceded by exactly one invocation of the access-token supplier and carries
\* Authorization: Bearer <what that invocation returned>; the client keeps no
\* supplier result (the token cache stays empty, no token is minted).
C13_SupplierPerAttempt ==
  /\ []((client = "ready" /\ ~Truthy(config, "relayUrl") /\ "accessTokenFn" \in DOMAIN config)
          => /\ cachedToken = NoToken /\ mints = 0
             /\ \A i \in DOMAIN req :
                  LET r == req[i]
                  IN  /\ r.supplierCalls = r.calls + (IF r.acq = NoResult THEN 0 ELSE 1)
                      /\ (r.calls > 0 /\ r.acq = NoResult)
                           => r.sent.headers = ("Authorization" :> Bearer(r.supplied))
                                                 @@ (IF r.body # <<>>
                                                       THEN ("Content-Type" :> "application/json")
                                                       ELSE <<>>))
  /\ [][(client = "ready" /\ ~Truthy(config, "relayUrl") /\ "accessTokenFn" \in DOMAIN config)
          => \A i \in DOMAIN req :
               AttemptStep(i) => req'[i].supplierCalls = SupplierCallsBefore(i) + 1]_vars

C13_Witness ==
  /\ client = "ready"
  /\ ~Truthy(config, "relayUrl") /\ "accessTokenFn" \in DOMAIN config
  /\ \E i \in DOMAIN req :
       /\ req[i].pc = "inflight" /\ req[i].attempt = 1
       /\ req[i].calls = 2 /\ req[i].supplierCalls = 2
       /\ req[i].supplied = <<"bio-token-1">>
       /\ SentBearer(req[i].sent) = <<"bio-token-1">>

\* C14: when credential acquisition fails while an attempt is built (the
\* access-token supplier rejects, or legacy minting throws), the request fails
\* with exactly that failure at once: no outbound call for that attempt, no
\* backoff wait and no retry, also when attempt < retries.
C14_AcquisitionFailurePropagates ==
  /\ [](\A i \in DOMAIN req :
          LET r == req[i]
          IN  r.acq # NoResult
                => /\ r.pc = "done"
                   /\ r.result = r.acq
                   /\ r.calls = r.attempt
                   /\ r.delay = 0)
  /\ [][\A i \in DOMAIN req : req[i].acq # NoResult => req'[i] = req[i]]_vars

C14_Witness ==
  /\ client = "ready"
  /\ \E i \in DOMAIN req :
       LET r == req[i]
       IN  /\ r.attempt = 1 /\ r.attempt < config["retries"]
           /\ r.acq = Throw(PlainError("token fetch failed"))
           /\ r.result = r.acq
           /\ r.calls = 1

----------------------------------------------------------------------------
(* Properties of construction *)

\* nothing has gone out and nothing was minted
NothingDone ==
  /\ cachedToken = NoToken
  /\ mints = 0
  /\ \A i \in DOMAIN req : req[i].pc = "idle" /\ req[i].calls = 0 /\ req[i].supplierCalls = 0

\* a field the caller gave a value (absent and the empty string are no value)
Has(c, k) == k \in DOMAIN c /\ c[k] # ""

\* C15: constructing a client from a configuration in which none of
\* accessTokenFn, jwtSecret and relayUrl is present (or has a non-empty value)
\* fails at construction: no client exists, no network call was made and no
\* token was minted.
C15_NoModeFailsAtConstruction ==
  (client # "unbuilt" /\ \A k \in {"accessTokenFn", "jwtSecret", "relayUrl"} : ~Has(given, k))
    => /\ client = "failed"
       /\ config = <<>>
       /\ NothingDone

C15_Witness ==
  /\ client = "failed"
  /\ given = ("internalKey" :> "test-key") @@ ("programId" :> "test-org")
  /\ NothingDone

\* C16: constructing a client from a configuration that has jwtSecret but no
\* programId fails, whatever other fields (relayUrl, accessTokenFn, internalKey)
\* are present; every constructed client with a (non-empty) jwtSecret has a
\* programId.
C16_SecretRequiresProgramId ==
  /\ (client # "unbuilt" /\ Has(given, "jwtSecret") /\ "programId" \notin DOMAIN given)
       => client = "failed" /\ config = <<>>
  /\ (client = "ready" /\ Has(config, "jwtSecret")) => Has(config, "programId")

C16_Witness ==
  /\ client = "failed"
  /\ {"jwtSecret", "relayUrl", "accessTokenFn", "internalKey"} \subseteq DOMAIN given
  /\ given["relayUrl"] # "" /\ given["internalKey"] # "" /\ given["jwtSecret"] # ""
  /\ "programId" \notin DOMAIN given

\* C17: fromEnv selects by the precedence direct URL (RELAY_DIRECT_URL) >
\* delegated pair (BIO_CLIENT_ID and BIO_CLIENT_SECRET both set) > legacy
\* secret (JWT_SECRET): for every environment the client it builds is of the
\* highest-precedence mode whose inputs are set and sends its requests that
\* way, and with none of the three set fromEnv fails and builds no client.
C17_FromEnvPrecedence ==
  client # "unbuilt" =>
    LET direct == Has(env, "RELAY_DIRECT_URL")
        delegated == Has(env, "BIO_CLIENT_ID") /\ Has(env, "BIO_CLIENT_SECRET")
        legacy == Has(env, "JWT_SECRET")
    IN  /\ (~direct /\ ~delegated /\ ~legacy)
             => client = "failed" /\ given = <<>> /\ NothingDone
        /\ client = "ready" =>
             IF direct
               THEN /\ DOMAIN config \cap {"relayUrl", "accessTokenFn", "jwtSecret"} = {"relayUrl"}
                    /\ config["relayUrl"] = env["RELAY_DIRECT_URL"]
                    /\ cachedToken = NoToken
                    /\ \A i \in DOMAIN req :
                         req[i].calls > 0
                           => /\ req[i].sent.url = env["RELAY_DIRECT_URL"] \o req[i].path
                              /\ "Authorization" \notin DOMAIN req[i].sent.headers
                              /\ req[i].supplierCalls = 0
             ELSE IF delegated
               THEN /\ DOMAIN config \cap {"relayUrl", "accessTokenFn", "jwtSecret"}
                         = {"accessTokenFn"}
                    /\ cachedToken = NoToken
                    /\ \A i \in DOMAIN req :
                         req[i].calls > 0
                           => /\ SentBearer(req[i].sent) \in SupplierTokens
                              /\ req[i].supplierCalls >= 1
             ELSE /\ legacy
                  /\ DOMAIN config \cap {"relayUrl", "accessTokenFn", "jwtSecret"} = {"jwtSecret"}
                  /\ config["jwtSecret"] = env["JWT_SECRET"]
                  /\ \A i \in DOMAIN req :
                       req[i].calls > 0
                         => /\ IsLegacyToken(SentBearer(req[i].sent))
                            /\ SentBearer(req[i].sent)[3].hmac[1] = env["JWT_SECRET"]
                            /\ req[i].supplierCalls = 0

C17_Witness ==
  /\ client = "ready"
  /\ {"RELAY_DIRECT_URL", "BIO_CLIENT_ID", "BIO_CLIENT_SECRET", "JWT_SECRET", "PROGRAM_ID"}
       \subseteq DOMAIN env
  /\ env["RELAY_DIRECT_URL"] = "http://localhost:3001"
  /\ \E i \in DOMAIN req :
       /\ req[i].pc = "done" /\ req[i].result.kind = "return"
       /\ req[i].sent.url = "http://localhost:3001/send"

----------------------------------------------------------------------------
(* Properties of the legacy token cache (SpecLegacy) *)

LegacyMode == client = "ready" /\ ~Has(config, "relayUrl") /\ "accessTokenFn" \notin DOMAIN config

Iat(t) == t[2].b64.iat
Exp(t) == t[2].b64.exp

\* the cache is empty, or the cached token expires within the 30 s buffer
CacheStale == cachedToken = NoToken \/ Exp(cachedToken) <= now + 30

\* C18: in legacy mode the client keeps one cached token: an attempt mints a new
\* token exactly when the cache is empty or the cached token is expired under
\* the 30 s buffer, and otherwise sends the cached token unchanged; while the
\* first token minted is not yet buffer-expired exactly one mint has happened.
C18_MintExactlyWhenStale ==
  /\ [][LegacyMode =>
          \A i \in DOMAIN req :
            AttemptStep(i) =>
              IF CacheStale
                THEN /\ mints' = mints + 1
                     /\ cachedToken' # NoToken /\ Iat(cachedToken') = now
                     /\ SentBearer(req'[i].sent) = cachedToken'
                ELSE /\ mints' = mints
                     /\ cachedToken' = cachedToken
                     /\ SentBearer(req'[i].sent) = cachedToken]_vars
  /\ []((LegacyMode /\ cachedToken # NoToken /\ Iat(cachedToken) = 0 /\ ~CacheStale)
          => mints = 1)

C18_Witness ==
  /\ LegacyMode
  /\ mints = 1 /\ now = 1 /\ ~CacheStale
  /\ \A i \in DOMAIN req : req[i].calls > 0 /\ SentBearer(req[i].sent) = cachedToken
  /\ \E i \in DOMAIN req : req[i].attempt = 1 /\ req[i].pc = "inflight"
  /\ \E i \in DOMAIN req : req[i].attempt = 0 /\ req[i].pc = "done"

\* t is a complete token minted by this client: three segments, the HS256
\* header, a payload with the configured programId and exp = iat + the
\* configured TTL issued no later than now, signed with the configured secret
MintedByClient(t) ==
  /\ Len(t) = 3
  /\ t[1] = [b64 |-> [alg |-> "HS256", typ |-> "JWT"]]
  /\ DOMAIN t[2] = {"b64"}
  /\ DOMAIN t[2].b64 = {"programId", "scopes", "iat", "exp"}
  /\ t[2].b64.programId = config["programId"]
  /\ t[2].b64.scopes = <<"service:relay">>
  /\ t[2].b64.iat \in 0..now
  /\ t[2].b64.exp = t[2].b64.iat + config["tokenTtlSeconds"]
  /\ t[3] = [hmac |-> <<config["jwtSecret"], t[1], t[2]>>]

\* the cache and the tokens sent are tokens of this client, and the cache holds
\* the newest of them
CacheIntegrity ==
  LegacyMode =>
    /\ cachedToken # NoToken => MintedByClient(cachedToken)
    /\ \A i \in DOMAIN req :
         req[i].calls > 0
           => /\ MintedByClient(SentBearer(req[i].sent))
              /\ cachedToken # NoToken
              /\ Iat(SentBearer(req[i].sent)) <= Iat(cachedToken)

\* a mint stores its token: after the step the cache holds the token issued now
LastWriteWins == mints' > mints => (cachedToken' # NoToken /\ Iat(cachedToken') = now)

\* C19 as stated: under every interleaving of concurrent requests on a legacy
\* client the cache is empty or a complete token minted by this client, every
\* outbound attempt carries such a token that was not buffer-expired when it
\* was attached, and after concurrent mints the cache holds the last mint.
C19_FreshTokenOnEveryAttempt ==
  /\ []CacheIntegrity
  /\ [][LegacyMode =>
          /\ LastWriteWins
          /\ \A i \in DOMAIN req :
               AttemptStep(i) => Exp(SentBearer(req'[i].sent)) > now + 30]_vars

\* C19 as amended: as above, but the token attached is outside the 30 s buffer
\* only when tokenTtlSeconds > 30; with a TTL of at most 30 s every attempt
\* mints, and the token it attaches is issued now and already within the buffer.
C19_ValidTokenOnEveryAttempt ==
  /\ []CacheIntegrity
  /\ [][LegacyMode =>
          /\ LastWriteWins
          /\ \A i \in DOMAIN req :
               AttemptStep(i) =>
                 IF config["tokenTtlSeconds"] > 30
                   THEN Exp(SentBearer(req'[i].sent)) > now + 30
                   ELSE /\ mints' = mints + 1
                        /\ Iat(SentBearer(req'[i].sent)) = now]_vars

C19_Witness ==
  /\ LegacyMode
  /\ mints = 2
  /\ \A i \in DOMAIN req : req[i].pc = "inflight"
  /\ \E i, k \in DOMAIN req :
       /\ Iat(SentBearer(req[i].sent)) = 0
       /\ Iat(SentBearer(req[k].sent)) = 1
       /\ cachedToken = SentBearer(req[k].sent)

----------------------------------------------------------------------------
(* Properties of the jwt helpers (SpecJwt) *)

\* three segments whose payload decodes to an object with a numeric exp
WellFormedWithExp(t) ==
  /\ Len(t) = 3
  /\ DOMAIN t[2] = {"b64"}
  /\ "exp" \in DOMAIN t[2].b64
  /\ t[2].b64.exp \in Int

\* C20: for every well-formed three-segment token whose payload has a numeric
\* exp, every clock value now (whole seconds) and every bufferSeconds,
\* isTokenExpired(token, bufferSeconds) is true exactly when
\* exp <= now + bufferSeconds; bufferSeconds is 30 when it is not given.
C20_ExpiredIffWithinBuffer ==
  (probe.fn = "isTokenExpired" /\ WellFormedWithExp(probe.token))
    => LET bufferSeconds == IF probe.buffer = <<>> THEN 30 ELSE probe.buffer[1]
       IN  probe.result = (probe.token[2].b64.exp <= probe.at + bufferSeconds)

C20_Witness ==
  /\ probe.fn = "isTokenExpired"
  /\ WellFormedWithExp(probe.token)
  /\ probe.buffer = <<>> /\ probe.at = 1
  /\ probe.token[2].b64.exp = 31
  /\ probe.result = TRUE

\* a token isTokenExpired has to treat as malformed: not three segments, a
\* payload segment that does not decode, or a decoded payload without exp
Malformed(t) ==
  \/ Len(t) # 3
  \/ DOMAIN t[2] # {"b64"}
  \/ "exp" \notin DOMAIN t[2].b64

\* C21: isTokenExpired returns true for every malformed token: one whose
\* segment count is not three (the empty string included), one whose payload
\* segment cannot be decoded, and one whose decoded payload has no exp.
C21_MalformedIsExpired ==
  (probe.fn = "isTokenExpired" /\ Malformed(probe.token)) => probe.result = TRUE

\* the TTL and the buffer of a check made on a token the caller minted
TtlOf(m) == IF m.ttl = <<>> THEN 300 ELSE m.ttl[1]
BufferOf(p) == IF p.buffer = <<>> THEN 30 ELSE p.buffer[1]

CheckOfMinted == probe.fn = "isTokenExpired" /\ probe.mint # NoProbe

\* C22 as stated: for every TTL t, a token minted with TTL t is reported not
\* expired immediately after minting, and is reported expired at every later
\* instant at which now + bufferSeconds has reached or passed issuedAt + t.
C22_FreshThenExpired ==
  CheckOfMinted =>
    /\ probe.at = probe.mint.at => probe.result = FALSE
    /\ probe.at + BufferOf(probe) >= probe.mint.at + TtlOf(probe.mint) => probe.result = TRUE

\* C22 as amended: a token minted with TTL t is reported not expired
\* immediately after minting exactly when t > bufferSeconds, and is reported
\* expired at every instant at which now + bufferSeconds has reached or passed
\* issuedAt + t.
C22_FreshIffTtlAboveBuffer ==
  CheckOfMinted =>
    /\ probe.at = probe.mint.at
         => (probe.result = FALSE <=> TtlOf(probe.mint) > BufferOf(probe))
    /\ probe.at + BufferOf(probe) >= probe.mint.at + TtlOf(probe.mint) => probe.result = TRUE
    /\ probe.at + BufferOf(probe) < probe.mint.at + TtlOf(probe.mint) => probe.result = FALSE

C22_Witness ==
  /\ CheckOfMinted
  /\ probe.mint.ttl = <<31>> /\ probe.mint.at = 0
  /\ probe.buffer = <<>> /\ probe.at = 1
  /\ probe.result = TRUE

\* the payload of a three-segment token
PayloadOf(t) == t[2].b64

\* C23: every token mintServiceJwt(secret, programId, ttlSeconds) produces has
\* exactly three segments and a payload with the given programId, scopes equal
\* to ["service:relay"] and exp - iat equal to ttlSeconds, 300 when omitted;
\* the client mints with the configured tokenTtlSeconds (300 when not
\* configured) and its programId.
C23_MintedTokenShape ==
  /\ probe.fn = "mintServiceJwt"
       => /\ probe.result.kind = "return"
          /\ Len(probe.result.value) = 3
          /\ PayloadOf(probe.result.value).programId = probe.programId
          /\ PayloadOf(probe.result.value).scopes = <<"service:relay">>
          /\ PayloadOf(probe.result.value).exp - PayloadOf(probe.result.value).iat
               = (IF probe.ttl = <<>> THEN 300 ELSE probe.ttl[1])
  /\ (client = "ready" /\ cachedToken # NoToken)
       => /\ Len(cachedToken) = 3
          /\ PayloadOf(cachedToken).programId = given["programId"]
          /\ PayloadOf(cachedToken).scopes = <<"service:relay">>
          /\ PayloadOf(cachedToken).exp - PayloadOf(cachedToken).iat
               = (IF "tokenTtlSeconds" \in DOMAIN given THEN given["tokenTtlSeconds"] ELSE 300)
          /\ mints >= 1

C23_Witness ==
  /\ probe.fn = "mintServiceJwt"
  /\ probe.ttl = <<>> /\ probe.programId = "my-service" /\ probe.at = 1
  /\ PayloadOf(probe.result.value).iat = 1
  /\ PayloadOf(probe.result.value).exp = 301

\* two mints made one after the other
TwoMints == probe.fn = "mintServiceJwt" /\ probe.before # NoProbe

\* the two mints have the same payload inputs: programId, TTL and clock second
SamePayloadInputs(a, b) ==
  /\ a.programId = b.programId
  /\ TtlOf(a) = TtlOf(b)
  /\ a.at = b.at

C25_ShortSecretRejected ==
  (probe.fn = "mintServiceJwt" /\ Len(probe.secret) < 32) => probe.result.kind = "throw"

----------------------------------------------------------------------------
(* The validation layer of sendEmail and sendSMS *)

IsSendCall(r) == r.op \in {"sendEmail", "sendSMS"}

\* the simple local@domain.tld shape: one "@" after a non-empty local part,
\* a "." inside the domain with text on both sides, no whitespace
SimpleEmailShape(e) ==
  \E at \in 2..Len(e), dot \in 1..(Len(e) - 1) :
    /\ e[at] = "@"
    /\ e[dot] = "."
    /\ dot > at + 1
    /\ \A k \in 1..Len(e) : k # at => e[k] \notin (SpaceChars \cup {"@"})

\* "+" followed by lo to hi digits, the first of them 1-9
PlusAndDigits(p, lo, hi) ==
  /\ Len(p) - 1 >= lo /\ Len(p) - 1 <= hi
  /\ p[1] = "+"
  /\ p[2] \in {"1", "2", "3", "4", "5", "6", "7", "8", "9"}
  /\ \A k \in 2..Len(p) : p[k] \in DigitChars

EmailRecipientOk(o) == "email" \in DOMAIN o["to"] /\ SimpleEmailShape(o["to"]["email"])

PhoneRecipientOk(o) == "phone" \in DOMAIN o["to"] /\ PlusAndDigits(o["to"]["phone"], 2, 15)

RecipientOk(r) ==
  IF r.op = "sendEmail" THEN EmailRecipientOk(r.input) ELSE PhoneRecipientOk(r.input)

SuppliesTemplate(o) == "template" \in DOMAIN o /\ o["template"] # ""

SuppliesContent(o) == "content" \in DOMAIN o

\* the raw content carries what its channel needs
ContentOk(r) ==
  LET c == r.input["content"]
  IN  IF r.op = "sendEmail"
        THEN /\ Has(c, "subject")
             /\ Has(c, "html") \/ Has(c, "text")
        ELSE Has(c, "text")

\* the input of the call violates the contract of its channel
ContractViolated(r) ==
  \/ ~RecipientOk(r)
  \/ SuppliesTemplate(r.input) = SuppliesContent(r.input)
  \/ SuppliesContent(r.input) /\ ~ContentOk(r)

\* the call is over, failed with the validation error, and nothing was done for it
FailedValidation(r) ==
  /\ r.pc = "done"
  /\ Raised(r, 400, "VALIDATION_ERROR")
  /\ r.calls = 0
  /\ r.attempt = 0
  /\ r.sent = NoRequest
  /\ r.supplierCalls = 0
  /\ r.acq = NoResult

FailedWith(r, message) == FailedValidation(r) /\ r.result.error.message = message

\* a step that starts a sendEmail or sendSMS call with a violating input
StartsViolatingCall(i) ==
  /\ req[i].pc = "idle"
  /\ IsSendCall(req'[i])
  /\ ContractViolated(req'[i])

\* C26: every sendEmail or sendSMS call whose input violates the contract of
\* its channel (recipient shape, template/content exclusivity, raw-content
\* fields) fails with a RelayError with statusCode 400 and code
\* VALIDATION_ERROR, with no outbound call, no attempt, no supplier invocation
\* and no token mint (the cache and the mint count are left as they were), and
\* it is never retried.
C26_ValidationBeforeAnything ==
  /\ [](\A i \in Requests :
          (IsSendCall(req[i]) /\ ContractViolated(req[i])) => FailedValidation(req[i]))
  /\ [][\A i \in Requests :
          StartsViolatingCall(i) => (cachedToken' = cachedToken /\ mints' = mints)]_vars

C26_Witness ==
  \E i \in Requests :
    /\ req[i].op = "sendEmail"
    /\ req[i].input["to"] = ("name" :> "Test")
    /\ SuppliesTemplate(req[i].input)
    /\ FailedValidation(req[i])
    /\ Has(config, "jwtSecret")

\* the request body of the outbound call carries the key
OnWire(r, k) == k \in DOMAIN r.sent.body[1]

\* C27: every request body that sendEmail or sendSMS puts on the wire carries
\* exactly one of template and content; a call supplying both fails validation
\* without an outbound request, with the message 'Provide template or content,
\* not both' when its recipient is valid, and a call supplying neither fails
\* likewise with 'Either template or content is required'.
C27_ExactlyOneOfTemplateAndContent ==
  \A i \in Requests :
    IsSendCall(req[i]) =>
      LET r == req[i]
          both == SuppliesTemplate(r.input) /\ SuppliesContent(r.input)
          neither == ~SuppliesTemplate(r.input) /\ ~SuppliesContent(r.input)
      IN  /\ r.sent # NoRequest => (OnWire(r, "template") # OnWire(r, "content"))
          /\ (both \/ neither) => FailedValidation(r)
          /\ (both /\ RecipientOk(r)) => FailedWith(r, "Provide template or content, not both")
          /\ (neither /\ RecipientOk(r)) => FailedWith(r, "Either template or content is required")

C27_Witness ==
  \E i \in Requests :
    /\ req[i].op = "sendSMS"
    /\ SuppliesTemplate(req[i].input) /\ SuppliesContent(req[i].input)
    /\ FailedWith(req[i], "Provide template or content, not both")

ReachedNetwork(r) == r.calls >= 1 /\ r.sent # NoRequest

\* C28: a sendEmail call with raw content reaches the network only if the
\* content carries a subject and at least one of html and text; with a valid
\* recipient and no template, content without a subject fails with 'Email
\* content requires a subject', and content with a subject but neither html
\* nor text fails with 'Email content requires either html or text'.
C28_EmailContentFields ==
  \A i \in Requests :
    (req[i].op = "sendEmail" /\ SuppliesContent(req[i].input)) =>
      LET r == req[i]
          c == r.input["content"]
          alone == RecipientOk(r) /\ ~SuppliesTemplate(r.input)
      IN  /\ ReachedNetwork(r) =>
               /\ ContentOk(r)
               /\ r.sent.body[1]["content"] = c
          /\ ~ContentOk(r) => FailedValidation(r)
          /\ (alone /\ ~Has(c, "subject")) => FailedWith(r, "Email content requires a subject")
          /\ (alone /\ Has(c, "subject") /\ ~Has(c, "html") /\ ~Has(c, "text")) =>
               FailedWith(r, "Email content requires either html or text")

C28_Witness ==
  \E i \in Requests :
    /\ req[i].op = "sendEmail"
    /\ SuppliesContent(req[i].input)
    /\ req[i].input["content"] = ("subject" :> "Hi")
    /\ FailedWith(req[i], "Email content requires either html or text")

\* C29: a sendSMS call with raw content reaches the network only if the
\* content carries text; with a valid recipient and no template, content
\* without text (for example only a subject) fails with 'SMS content requires
\* text', and no outbound call is made.
C29_SmsContentText ==
  \A i \in Requests :
    (req[i].op = "sendSMS" /\ SuppliesContent(req[i].input)) =>
      LET r == req[i]
          c == r.input["content"]
      IN  /\ ReachedNetwork(r) =>
               /\ Has(c, "text")
               /\ r.sent.body[1]["content"] = c
          /\ ~Has(c, "text") => FailedValidation(r)
          /\ (RecipientOk(r) /\ ~SuppliesTemplate(r.input) /\ ~Has(c, "text")) =>
               FailedWith(r, "SMS content requires text")

C29_Witness ==
  \E i \in Requests :
    /\ req[i].op = "sendSMS"
    /\ SuppliesContent(req[i].input)
    /\ req[i].input["content"] = ("subject" :> "Hi")
    /\ FailedWith(req[i], "SMS content requires text")

E164Message == "Recipient phone must be in E.164 format (e.g., +15551234567)"

\* the call passed the recipient check of sendSMS
PhoneAccepted(r) == ~(r.result.kind = "throw" /\ r.result.error.message = E164Message)

HasPhone(r) == "phone" \in DOMAIN r.input["to"]

\* C30 as stated: sendSMS accepts a recipient phone exactly when it is "+"
\* followed by 1 to 15 digits whose first digit is 1-9.
C30_OneToFifteenDigits ==
  \A i \in Requests :
    req[i].op = "sendSMS" =>
      (PhoneAccepted(req[i]) <=>
         (HasPhone(req[i]) /\ PlusAndDigits(req[i].input["to"]["phone"], 1, 15)))

\* C30: sendSMS accepts a recipient phone exactly when it is "+" followed by
\* 2 to 15 digits whose first digit is 1-9; every other value (missing phone,
\* a single digit, no leading "+", leading digit 0, more than 15 digits,
\* non-digit characters) fails with the E.164 validation error and nothing
\* is sent.
C30_TwoToFifteenDigits ==
  \A i \in Requests :
    req[i].op = "sendSMS" =>
      /\ PhoneAccepted(req[i]) <=> PhoneRecipientOk(req[i].input)
      /\ ~PhoneAccepted(req[i]) => FailedWith(req[i], E164Message)

C30_Witness ==
  \E i \in Requests :
    /\ req[i].op = "sendSMS"
    /\ HasPhone(req[i])
    /\ req[i].input["to"]["phone"] = <<"+", "1">> \o Digits(14)
    /\ ReachedNetwork(req[i])
    /\ req[i].sent.body[1]["recipient"] = req[i].input["to"]

----------------------------------------------------------------------------
(* The metadata of a send *)

RawMarker(r) == IF r.op = "sendEmail" THEN "raw_email" ELSE "raw_sms"

\* C31: in every request body sent by sendEmail or sendSMS,
\* metadata.sourceAction is the caller's metadata.sourceAction when given,
\* otherwise the template name for a template send, otherwise the literal
\* raw_email (email) or raw_sms (SMS) for a raw-content send; and the body of
\* a raw-content send has no template field.
C31_SourceActionDefault ==
  \A i \in Requests :
    (IsSendCall(req[i]) /\ req[i].sent # NoRequest) =>
      LET r == req[i]
          sent == r.sent.body[1]
          given_ == Coalesce(r.input, "metadata", <<>>)
      IN  /\ sent["metadata"]["sourceAction"] =
               IF "sourceAction" \in DOMAIN given_ THEN given_["sourceAction"]
               ELSE IF OnWire(r, "template") THEN r.input["template"]
               ELSE RawMarker(r)
          /\ OnWire(r, "content") => ~OnWire(r, "template")

----------------------------------------------------------------------------
(* How a call ends *)

\* the call raised a RelayError that carries a statusCode and a code
ClassifiedError(r) ==
  /\ r.result.kind = "throw"
  /\ r.result.error.name = "RelayError"
  /\ r.result.error.statusCode \in Nat
  /\ r.result.error.code # UNDEF

\* C32: every failing call on a constructed client raises a RelayError that
\* carries a statusCode and a classification code; no failure path raises any
\* other error type, and a call that does not fail returns a value.
C32_EveryFailureIsRelayError ==
  \A i \in Requests :
    req[i].pc = "done" =>
      \/ req[i].result.kind = "return" /\ req[i].result.value # UNDEF
      \/ ClassifiedError(req[i])

----------------------------------------------------------------------------
(* The request timeout (SpecTimeout) *)

\* the attempt's timeout fired, during fetch or while the body was read
TimedOut(o) ==
  \/ IsReject(o) /\ o.err.dom /\ o.err.name = "TimeoutError"
  \/ IsResponse(o) /\ ~o.body.json /\ "aborted" \in DOMAIN o.body

\* C33: the request timeout is scoped to one attempt: each attempt's outbound
\* call carries the full timeoutMs of the configuration (10000 when none is
\* given); a timeout counts as a transport failure, so with attempt < retries
\* the request waits for its backoff and then runs the next attempt as a new
\* attempt, and with no budget left it fails with TIMEOUT.
C33_TimeoutPerAttempt ==
  /\ [](\A i \in Requests :
          LET r == req[i]
          IN  /\ r.sent # NoRequest =>
                   r.sent.timeoutMs = Coalesce(given, "timeoutMs", 10000)
              /\ TimedOut(r.last) =>
                   IF r.attempt < config["retries"] THEN r.pc = "sleeping"
                   ELSE r.pc = "done" /\ Raised(r, 0, "TIMEOUT"))
  /\ [][\A i \in Requests :
          (req[i].pc = "sleeping" /\ TimedOut(req[i].last) /\ req'[i] # req[i]) =>
             /\ req'[i].pc = "inflight"
             /\ req'[i].attempt = req[i].attempt + 1
             /\ req'[i].calls = req[i].calls + 1
             /\ req'[i].sent.timeoutMs = config["timeoutMs"]]_vars

----------------------------------------------------------------------------
(* The backoff waits (SpecBackoff) *)

\* min(1000 * 2^a, 5000)
BackoffBase(a) == IF 1000 * 2 ^ a <= 5000 THEN 1000 * 2 ^ a ELSE 5000

\* the three failures a retry may follow
Retryable(o) == IsReject(o) \/ (IsResponse(o) /\ o.status >= 500)

\* C34: between attempt a and attempt a + 1 of a request there is exactly one
\* backoff wait, of a duration d with base/2 <= d <= base where
\* base = min(1000 * 2^a, 5000) ms, whichever failure the retry follows (a
\* transport failure, a non-JSON 5xx body or a JSON 5xx response); the attempt
\* number grows only by one and only out of a wait, a wait starts only when an
\* attempt's call has failed with retries left, and there is no wait before
\* the first attempt or after the last.
C34_OneBoundedWaitBetweenAttempts ==
  /\ [](\A i \in Requests :
          LET r == req[i]
          IN  IF r.pc = "sleeping"
                THEN /\ 2 * r.delay >= BackoffBase(r.attempt)
                     /\ r.delay <= BackoffBase(r.attempt)
                     /\ Retryable(r.last)
                     /\ r.attempt < config["retries"]
                     /\ r.calls = r.attempt + 1
                ELSE r.delay = 0)
  /\ [][\A i \in Requests :
          /\ req'[i].attempt # req[i].attempt =>
               /\ req[i].pc = "sleeping"
               /\ req'[i].attempt = req[i].attempt + 1
               /\ req'[i].pc # "sleeping"
          /\ (req'[i].pc = "sleeping" /\ req[i].pc # "sleeping") => req[i].pc = "inflight"
          /\ req[i].pc = "sleeping" => req'[i].pc \in {"sleeping", "inflight"}]_vars

C34_Witness ==
  \E i \in Requests :
    /\ req[i].pc = "sleeping"
    /\ req[i].attempt = 3
    /\ req[i].delay = 2500
    /\ IsResponse(req[i].last) /\ ~req[i].last.body.json
    /\ IsReject(req[i].prev)

----------------------------------------------------------------------------
(* What changes the legacy token cache (SpecFrame) *)

\* the step is an attempt of request i that made its outbound call
MadeAttempt(i) ==
  /\ AttemptStep(i)
  /\ req'[i].pc = "inflight"
  /\ req'[i].calls = (IF req[i].pc = "sleeping" THEN req[i].calls ELSE 0) + 1

\* C35: the legacy cached token changes only inside a request attempt of a
\* legacy-mode client: it is empty until a client is constructed and after
\* construction (failed or not), a call that fails validation leaves it as it
\* was, and on a direct-mode or delegated-mode client it is empty after any
\* sequence of operations, the legacy credentials being configured or not.
C35_CacheChangesOnlyInLegacyAttempt ==
  /\ []((client # "ready" \/ ~LegacyMode) => cachedToken = NoToken)
  /\ [][cachedToken' # cachedToken =>
          /\ LegacyMode
          /\ \E i \in Requests :
               /\ MadeAttempt(i)
               /\ SentBearer(req'[i].sent) = cachedToken'
               /\ ~(IsSendCall(req'[i]) /\ ContractViolated(req'[i]))]_vars
  /\ [][(\E i \in Requests : StartsViolatingCall(i)) => cachedToken' = cachedToken]_vars

C35_Witness ==
  /\ client = "ready"
  /\ Has(config, "jwtSecret") /\ "accessTokenFn" \in DOMAIN config
  /\ cachedToken = NoToken
  /\ now = 1
  /\ \E i \in Requests :
       /\ req[i].pc = "done" /\ req[i].op = "sendEmail"
       /\ req[i].calls = 2

----------------------------------------------------------------------------
(* The access-token supplier of fromEnv (SpecBio) *)

\* the lifetime the identity provider declared for the cached token: its
\* expires_in, 900 s when the response had none
DeclaredLifetime(b) == IF b.declared = <<>> THEN 900 ELSE b.declared[1]

\* the expiry the supplier is to store: fetch start + lifetime - 30 s
StoredExpiry(b) == (b.issued + DeclaredLifetime(b)) - 30

\* C36: the supplier built by fromEnv returns its cached token, without
\* calling the token endpoint, exactly when a token is cached and the current
\* time is before (time the fetch started) + expires_in (900 when absent)
\* - 30 s; a token with expires_in <= 30 is never reused.
C36_SupplierReusesBeforeExpiry ==
  /\ bio.reusedAt # <<>> =>
       /\ bio.pc = "idle"
       /\ bio.cachedBioToken # NoToken
       /\ bio.result = Return(bio.cachedBioToken)
       /\ bio.reusedAt[1] < StoredExpiry(bio)
       /\ DeclaredLifetime(bio) > 30
  /\ bio.pc = "fetching" =>
       ~(bio.cachedBioToken # NoToken /\ bio.started < StoredExpiry(bio))

----------------------------------------------------------------------------
(* The legacy credentials of a constructed client (SpecConfig) *)

ConfigError(x) ==
  /\ x.kind = "throw"
  /\ x.error.name = "RelayError"
  /\ x.error.code = "CONFIG_ERROR"

\* C37: no request on a successfully constructed client fails with
\* CONFIG_ERROR, at credential acquisition or as its result; a client whose
\* attempts reach legacy token minting has a non-empty jwtSecret and programId,
\* and the token an attempt sends was minted from them.
C37_NoConfigError ==
  client = "ready" =>
    /\ LegacyMode => (Has(config, "jwtSecret") /\ Has(config, "programId"))
    /\ \A i \in Requests :
         /\ ~ConfigError(req[i].acq)
         /\ ~ConfigError(req[i].result)
         /\ (LegacyMode /\ req[i].op # "none") =>
              /\ req[i].calls >= 1
              /\ SentBearer(req[i].sent)[2].b64.programId = config["programId"]
              /\ SentBearer(req[i].sent)[3].hmac[1] = config["jwtSecret"]

C37_Witness ==
  /\ LegacyMode
  /\ given = ("relayUrl" :> "") @@ ("jwtSecret" :> config["jwtSecret"])
               @@ ("programId" :> "test-org") @@ ("retries" :> 1)
  /\ mints >= 1
  /\ \E i \in Requests : req[i].pc = "done" /\ req[i].calls = 2

----------------------------------------------------------------------------
(* Termination (SpecLive) *)

Pending(i) == req[i].pc \in {"inflight", "sleeping"}

Ended(i) == req[i].pc = "done" /\ req[i].result.kind \in {"return", "throw"}

\* C38: provided each credential acquisition and each outbound call
\* eventually completes, fails or times out, every call to send, getStatus or
\* listTemplates eventually returns a value or raises an error; it makes at
\* most retries + 1 attempts, and waits (once before each attempt but the
\* first) at most retries times.
C38_EveryRequestTerminates ==
  /\ \A i \in Requests : Pending(i) ~> Ended(i)
  /\ [](client = "ready" =>
          \A i \in Requests :
            /\ req[i].attempt <= config["retries"]
            /\ req[i].calls <= req[i].attempt + 1
            /\ req[i].pc = "sleeping" => req[i].attempt < config["retries"]
            /\ (req[i].op # "none" /\ ~Pending(i)) => Ended(i))

C38_Witness ==
  \E i \in Requests :
    /\ Ended(i)
    /\ config["retries"] = 2
    /\ req[i].attempt = 2 /\ req[i].calls = 3
    /\ req[i].op = "listTemplates"
    /\ req[i].result.kind = "return"

====
